---- MODULE Spec2Model ----
(***************************************************************************)
(* Back In Time, common/config.py: the load-time schema migration of the   *)
(* configuration (Config.__init__), and the elapsed-time gate of the       *)
(* schedule (Config.backupScheduled / Config.olderThan), the schedule      *)
(* compiler (Config._cron_line) and the reads of the retention settings.   *)
(*                                                                         *)
(* Strings that the code takes apart (the legacy include/exclude values,   *)
(* paths) are sequences of one-character strings; keys of the store and    *)
(* opaque values are TLA+ strings; stored numbers are held as numbers.     *)
(* A datetime is a number of minutes:                                      *)
(* date.toordinal() * 1440 + hour * 60 + minute.                           *)
(***************************************************************************)
EXTENDS Integers, Sequences, FiniteSets, TLC

VARIABLES
    globalFile, \* the global config file /etc/backintime/config: key -> value
    file,       \* the local config file on disk: key -> value
    dict,       \* Config.dict, the loaded configuration: key -> value
    ccv,        \* currentConfigVersion, the local of Config.__init__
    pc,         \* position of the process inside Config.__init__
    exitCode,   \* -1 while the process runs, else the code given to sys.exit
    steps,      \* the migration steps this load has run, in order
    saves,      \* number of Config.save() calls since the first load
    results,    \* Config.dict at the end of every completed load, in order
    orig,       \* the config file as it was before the first load
    stamp,      \* content of the anacron spool file: <<>> or <<datetime>>
    now,        \* the wall clock, in minutes
    due,        \* <<>>, or <<b>>: backupScheduled returned b at this instant
    error,      \* "", or the exception backupScheduled raised at this instant
    written,    \* the spool file was written after a backup the gate let run
    jobs,       \* the scheduled invocations of one profile: job -> record
    useLock,    \* the invocations of this run are serialized by a lock
    lock,       \* the job that holds the lock, 0 when it is free
    udev,       \* what the machine answers to the UDEV branch of _cron_line
    udevRules,  \* the rules given to setupUdev.addRule: {<<cmd, uuid>>}
    lineOut,    \* profile id -> <<>>, or <<what its last _cron_line gave>>
    firstOut,   \* profile id -> <<>>, or <<what its first _cron_line gave>>
    linesOut,   \* <<>>, or <<what the last profiles_cron_lines gave>>
    crontab,    \* the lines of the user's crontab that Back In Time wrote
    setupOut,   \* <<>>, or <<what the last setupCron gave>>
    reply       \* <<>>, or <<what the last read of a retention setting gave>>

vars == <<globalFile, file, dict, ccv, pc, exitCode, steps, saves, results, orig,
          stamp, now, due, error, written, jobs, useLock, lock,
          udev, udevRules, lineOut, firstOut, linesOut, crontab, setupOut,
          reply>>

migratorVars == <<globalFile, file, ccv, pc, exitCode, steps, saves, results,
                  orig>>
gateVars == <<stamp, now, due, error, written>>
raceVars == <<jobs, useLock, lock>>
cronVars == <<udev, udevRules, lineOut, firstOut, linesOut, crontab, setupOut>>
readVars == <<reply>>

\* the two scheduled invocations of one profile, and an invocation that has
\* not yet asked the gate
Jobs == {1, 2}

\* a machine where the udev service is ready, the device of the snapshot
\* path is connected and its rule is accepted
UdevFine == [isReady |-> TRUE, uuid |-> <<"U1">>, rejects |-> FALSE]

\* no profile has been compiled yet
NoLineOut == [p \in {"1", "2"} |-> <<>>]

JobStart == [pc |-> "start", read |-> <<>>, due |-> <<>>, error |-> "", at |-> 0]

-----------------------------------------------------------------------------
(* Class constants of Config.                                              *)

CONFIG_VERSION == 6
MIN_CONFIG_VERSION == 4

NONE == 0
AT_EVERY_BOOT == 1
_5_MIN == 2
_10_MIN == 4
_30_MIN == 7
HOUR == 10
_1_HOUR == 10
_2_HOURS == 12
_4_HOURS == 14
_6_HOURS == 16
_12_HOURS == 18
CUSTOM_HOUR == 19
DAY == 20
REPEATEDLY == 25
UDEV == 27
WEEK == 30
MONTH == 40
YEAR == 80

\* every value the schedule mode and the repeat unit are documented to take
ScheduleModes == {NONE, AT_EVERY_BOOT, _5_MIN, _10_MIN, _30_MIN, _1_HOUR,
                  _2_HOURS, _4_HOURS, _6_HOURS, _12_HOURS, CUSTOM_HOUR, DAY,
                  REPEATEDLY, UDEV, WEEK, MONTH, YEAR}

-----------------------------------------------------------------------------
(* The key/value store (configfile.ConfigFile, ConfigFileWithProfiles).    *)

EmptyDict == <<>>

hasKey(d, key) == key \in DOMAIN d

intValue(d, key, default) == IF hasKey(d, key) THEN d[key] ELSE default

strValue(d, key, default) == IF hasKey(d, key) THEN d[key] ELSE default

listValue(d, key, default) == IF hasKey(d, key) THEN d[key] ELSE default

setValue(d, key, value) ==
    [k \in (DOMAIN d) \cup {key} |-> IF k = key THEN value ELSE d[k]]

removeKey(d, key) == [k \in (DOMAIN d) \ {key} |-> d[k]]

profileKey(name, profile_id) == "profile" \o profile_id \o "." \o name

profileIntValue(d, name, default, profile_id) ==
    intValue(d, profileKey(name, profile_id), default)

profileStrValue(d, name, default, profile_id) ==
    strValue(d, profileKey(name, profile_id), default)

profileListValue(d, name, default, profile_id) ==
    listValue(d, profileKey(name, profile_id), default)

setProfileListValue(d, name, values, profile_id) ==
    setValue(d, profileKey(name, profile_id), values)

removeProfileKey(d, name, profile_id) ==
    removeKey(d, profileKey(name, profile_id))

\* rename a key, keeping its value; a key that is not there is left alone
remapKey(d, old_key, new_key) ==
    IF old_key # new_key /\ hasKey(d, old_key)
      THEN IF hasKey(d, new_key)
             THEN removeKey(d, old_key)
             ELSE removeKey(setValue(d, new_key, d[old_key]), old_key)
      ELSE d

remapProfileKey(d, old_name, new_name, profile_id) ==
    remapKey(d, profileKey(old_name, profile_id),
                profileKey(new_name, profile_id))

\* ConfigFile.append(filename): the keys of the file are set in the store,
\* over the values the store has
append(d, content) ==
    [k \in (DOMAIN d) \cup (DOMAIN content) |->
        IF k \in DOMAIN content THEN content[k] ELSE d[k]]

\* ConfigFile.load(filename): the store is emptied, then the file appended
load(content) == append(EmptyDict, content)

\* the ids of the profiles of the configuration, in order
profiles(d) == IF hasKey(d, "profiles") THEN d["profiles"] ELSE <<"1">>


-----------------------------------------------------------------------------
(* Strings as sequences of characters: str.split, os.path.expanduser,      *)
(* os.path.abspath (posixpath), for the process environment below.         *)

HOME_DIR == <<"/", "h">>       \* $HOME of the user running the program
CWD == <<"/", "w">>            \* os.getcwd() of the process

\* index of the first occurrence of character c in s at or after i, 0 if none
RECURSIVE Find(_, _, _)
Find(s, c, i) ==
    IF i > Len(s) THEN 0
    ELSE IF s[i] = c THEN i
    ELSE Find(s, c, i + 1)

\* s.split(sep) for a one-character separator: never an empty list
RECURSIVE Split(_, _)
Split(s, sep) ==
    LET i == Find(s, sep, 1)
    IN  IF i = 0 THEN <<s>>
        ELSE <<SubSeq(s, 1, i - 1)>> \o Split(SubSeq(s, i + 1, Len(s)), sep)

\* sep.join(parts)
RECURSIVE Join(_, _)
Join(parts, sep) ==
    IF parts = <<>> THEN <<>>
    ELSE IF Len(parts) = 1 THEN parts[1]
    ELSE parts[1] \o <<sep>> \o Join(Tail(parts), sep)

StartsWith(s, prefix) ==
    Len(s) >= Len(prefix) /\ SubSeq(s, 1, Len(prefix)) = prefix

\* os.path.expanduser: "~" and "~/..." become $HOME; the model's password
\* database knows no other user, so "~name" stays as it is
expanduser(path) ==
    IF ~StartsWith(path, <<"~">>) THEN path
    ELSE LET f == Find(path, "/", 2)
             i == IF f = 0 THEN Len(path) + 1 ELSE f
         IN  IF i # 2 THEN path
             ELSE LET r == HOME_DIR \o SubSeq(path, i, Len(path))
                  IN  IF r = <<>> THEN <<"/">> ELSE r

\* the loop of posixpath.normpath over the components
RECURSIVE NormComps(_, _, _)
NormComps(comps, new_comps, initial_slashes) ==
    IF comps = <<>> THEN new_comps
    ELSE LET comp == Head(comps)
             n == Len(new_comps)
         IN  IF comp = <<>> \/ comp = <<".">>
               THEN NormComps(Tail(comps), new_comps, initial_slashes)
             ELSE IF \/ comp # <<".", ".">>
                     \/ (initial_slashes = 0 /\ n = 0)
                     \/ (n > 0 /\ new_comps[n] = <<".", ".">>)
               THEN NormComps(Tail(comps), Append(new_comps, comp),
                              initial_slashes)
             ELSE IF n > 0
               THEN NormComps(Tail(comps), SubSeq(new_comps, 1, n - 1),
                              initial_slashes)
             ELSE NormComps(Tail(comps), new_comps, initial_slashes)

normpath(path) ==
    IF path = <<>> THEN <<".">>
    ELSE LET initial_slashes ==
                 IF ~StartsWith(path, <<"/">>) THEN 0
                 ELSE IF StartsWith(path, <<"/", "/">>)
                         /\ ~StartsWith(path, <<"/", "/", "/">>) THEN 2
                 ELSE 1
             joined == Join(NormComps(Split(path, "/"), <<>>,
                                      initial_slashes), "/")
             r == [i \in 1..initial_slashes |-> "/"] \o joined
         IN  IF r = <<>> THEN <<".">> ELSE r

\* os.path.abspath: a relative path is joined to the working directory
abspath(path) ==
    IF StartsWith(path, <<"/">>) THEN normpath(path)
    ELSE normpath(CWD \o <<"/">> \o path)

-----------------------------------------------------------------------------
(* Include and exclude lists, old (version 4) and new style.               *)

\* the default of snapshots.exclude_patterns:
\* '.gvfs:.cache*:[Cc]ache*:.thumbnails*:[Tt]rash*:*.backup*:*~'
EXCLUDE_V4_DEFAULT == <<
       ".", "g", "v", "f", "s", ":", ".", "c", "a", "c", "h", "e",
       "*", ":", "[", "C", "c", "]", "a", "c", "h", "e", "*", ":",
       ".", "t", "h", "u", "m", "b", "n", "a", "i", "l", "s", "*",
       ":", "[", "T", "t", "]", "r", "a", "s", "h", "*", ":", "*",
       ".", "b", "a", "c", "k", "u", "p", "*", ":", "*", "~" >>

includeV4(d, profile_id) ==
    LET value == profileStrValue(d, "snapshots.include_folders", <<>>,
                                 profile_id)
        items == Split(value, ":")
    IN  IF value = <<>> THEN <<>>
        ELSE [i \in 1..Len(items) |->
                 abspath(expanduser(Split(items[i], "|")[1]))]

setInclude(d, values, profile_id) ==
    setProfileListValue(d, "snapshots.include", values, profile_id)

excludeV4(d, profile_id) ==
    LET value == profileStrValue(d, "snapshots.exclude_patterns",
                                 EXCLUDE_V4_DEFAULT, profile_id)
    IN  IF value = <<>> THEN <<>> ELSE Split(value, ":")

setExclude(d, values, profile_id) ==
    setProfileListValue(d, "snapshots.exclude", values, profile_id)

-----------------------------------------------------------------------------
(* The migration steps of Config.__init__.                                 *)

\* the update forgets to remove snapshots.exclude_patterns
UpdateProfileTo5_KeepsLegacy(d, profile_id) ==
    LET old_values == includeV4(d, profile_id)
        values == [i \in 1..Len(old_values) |-> <<old_values[i], 0>>]
        d1 == setInclude(d, values, profile_id)
        d2 == setExclude(d1, excludeV4(d1, profile_id), profile_id)
    IN  removeProfileKey(d2, "snapshots.include_folders", profile_id)

\* the body of the loop over the profiles of the update to version 5
UpdateProfileTo5(d, profile_id) ==
    LET old_values == includeV4(d, profile_id)
        values == [i \in 1..Len(old_values) |-> <<old_values[i], 0>>]
        d1 == setInclude(d, values, profile_id)
        d2 == setExclude(d1, excludeV4(d1, profile_id), profile_id)
        d3 == removeProfileKey(d2, "snapshots.include_folders", profile_id)
    IN  removeProfileKey(d3, "snapshots.exclude_patterns", profile_id)

\* the keys the update to version 6 moves into the 'schedule' domain, and
\* the key of the removed 'full rsync mode', in the order of the code
REMAP_V6 == <<
    <<"snapshots.automatic_backup_anacron_period",
      "schedule.repeatedly.period">>,
    <<"snapshots.automatic_backup_anacron_unit", "schedule.repeatedly.unit">>,
    <<"snapshots.automatic_backup_day", "schedule.day">>,
    <<"snapshots.automatic_backup_mode", "schedule.mode">>,
    <<"snapshots.automatic_backup_time", "schedule.time">>,
    <<"snapshots.automatic_backup_weekday", "schedule.weekday">>,
    <<"snapshots.custom_backup_time", "schedule.custom_time">>,
    <<"snapshots.full_rsync.take_snapshot_regardless_of_changes",
      "snapshots.take_snapshot_regardless_of_changes">> >>

RECURSIVE RemapAll(_, _, _)
RemapAll(d, pairs, profile_id) ==
    IF pairs = <<>> THEN d
    ELSE RemapAll(remapProfileKey(d, Head(pairs)[1], Head(pairs)[2],
                                  profile_id),
                  Tail(pairs), profile_id)

\* the body of the loop over the profiles of the update to version 6
UpdateProfileTo6(d, profile_id) == RemapAll(d, REMAP_V6, profile_id)

\* re.sub(r'qt4', 'qt', key) on the keys the model's configurations hold
SubQt4(key) ==
    CASE key = "qt4.last_path" -> "qt.last_path"
      [] key = "profile1.qt4.places.SortOrder" -> "profile1.qt.places.SortOrder"
      [] key = "profile2.qt4.places.SortOrder" -> "profile2.qt.places.SortOrder"
      [] OTHER -> key

\* key.startswith(prefix) on the keys the model's configurations hold
KeyStartsWith(key, prefix) ==
    \/ prefix = "gnome" /\ key \in {"gnome.main_window.width",
                                    "gnome.show_hidden_files"}
    \/ prefix = "kde" /\ key \in {"kde.main_window.width"}

RECURSIVE RemapKeys(_, _)
RemapKeys(d, keys) ==
    IF keys = {} THEN d
    ELSE LET key == CHOOSE k \in keys : TRUE
         IN  RemapKeys(remapKey(d, key, SubQt4(key)), keys \ {key})

remapKeyRegex(d) == RemapKeys(d, DOMAIN d)

removeKeysStartsWith(d, prefix) ==
    [k \in {key \in DOMAIN d : ~KeyStartsWith(key, prefix)} |-> d[k]]

\* for profile_id in profiles: (update to version 5)
RECURSIVE UpdateProfilesTo5(_, _)
UpdateProfilesTo5(d, ids) ==
    IF ids = <<>> THEN d
    ELSE UpdateProfilesTo5(UpdateProfileTo5(d, Head(ids)), Tail(ids))

\* for profile in self.profiles(): (update to version 6)
RECURSIVE UpdateProfilesTo6(_, _)
UpdateProfilesTo6(d, ids) ==
    IF ids = <<>> THEN d
    ELSE UpdateProfilesTo6(UpdateProfileTo6(d, Head(ids)), Tail(ids))

\* if currentConfigVersion < 5: ...
UpdateToVersion5(d) == UpdateProfilesTo5(d, profiles(d))

\* if currentConfigVersion < 6: ...
UpdateToVersion6(d) ==
    LET d1 == UpdateProfilesTo6(d, profiles(d))
        d2 == remapKeyRegex(d1)
        d3 == removeKeysStartsWith(d2, "gnome")
    IN  removeKeysStartsWith(d3, "kde")

\* a save that does not set the version field
SaveDict_KeepsVersion(d) == d

\* Config.save's change of the store: the version is set to the current one
SaveDict(d) == setValue(d, "config.version", CONFIG_VERSION)

-----------------------------------------------------------------------------
(* The configuration files the loader is run on.                           *)

MaxLoads == 2                   \* program starts in one behaviour

ProfileIds == <<"1", "2">>

\* values of snapshots.include_folders:
\* '', '/a:/b', '/b:/a', '/a|1:~/b', 'a:/a//b/', '/a::/b/../a'
LegacyIncludeValues == {
    <<>>,
    <<"/", "a", ":", "/", "b">>,
    <<"/", "b", ":", "/", "a">>,
    <<"/", "a", "|", "1", ":", "~", "/", "b">>,
    <<"a", ":", "/", "a", "/", "/", "b", "/">>,
    <<"/", "a", ":", ":", "/", "b", "/", ".", ".", "/", "a">> }

\* values of snapshots.exclude_patterns: '', '*~:/tmp/*'
LegacyExcludeValues == {
    <<>>,
    <<"*", "~", ":", "/", "t", "m", "p", "/", "*">> }

\* values of the new-style lists snapshots.include and snapshots.exclude
IncludeValues == { << <<<<"/", "x">>, 1>> >>,
                   << <<<<"/", "a">>, 0>>, <<<<"/", "x">>, 1>> >> }

ExcludeValues == { << <<"*", ".", "o">> >> }

Opt(key, values) == {EmptyDict} \cup {key :> v : v \in values}

\* schedule settings of a profile: none, old style, new style
ScheduleChoices(p) == {
    EmptyDict,
    profileKey("snapshots.automatic_backup_mode", p) :> REPEATEDLY
      @@ profileKey("snapshots.automatic_backup_anacron_period", p) :> 2
      @@ profileKey("snapshots.automatic_backup_anacron_unit", p) :> WEEK
      @@ profileKey("snapshots.automatic_backup_time", p) :> 1345
      @@ profileKey("snapshots.full_rsync.take_snapshot_regardless_of_changes",
                    p) :> TRUE
      @@ profileKey("qt4.places.SortOrder", p) :> 1,
    profileKey("schedule.mode", p) :> DAY
      @@ profileKey("schedule.time", p) :> 2359 }

FirstProfileChoices ==
    LET p == ProfileIds[1]
    IN  { a @@ b @@ c @@ e @@ f :
            a \in Opt(profileKey("snapshots.include_folders", p),
                      LegacyIncludeValues),
            b \in Opt(profileKey("snapshots.exclude_patterns", p),
                      LegacyExcludeValues),
            c \in Opt(profileKey("snapshots.include", p), IncludeValues),
            e \in Opt(profileKey("snapshots.exclude", p), ExcludeValues),
            f \in ScheduleChoices(p) }

\* a second profile, when there is one
OtherProfileChoices ==
    LET p == ProfileIds[2]
    IN  { ("profiles" :> ProfileIds) @@ a @@ f :
            a \in Opt(profileKey("snapshots.include_folders", p),
                      {<<"/", "b", ":", "/", "a">>}),
            f \in {EmptyDict,
                   profileKey("snapshots.automatic_backup_mode", p) :> UDEV
                     @@ profileKey("snapshots.include", p)
                          :> << <<<<"/", "x">>, 1>> >>} }

GlobalChoices == {
    EmptyDict,
    "qt4.last_path" :> "/x",
    "qt.last_path" :> "/y" @@ "gnome.show_hidden_files" :> TRUE,
    "qt4.last_path" :> "/x" @@ "gnome.main_window.width" :> 800
      @@ "gnome.show_hidden_files" :> TRUE @@ "kde.main_window.width" :> 640 }

\* stored values of config.version (none: the field is missing)
StoredVersions == {3, 4, 5, 6, 7}

ConfigFiles ==
    { v @@ g @@ p1 @@ p2 :
        v \in Opt("config.version", StoredVersions),
        g \in GlobalChoices,
        p1 \in FirstProfileChoices,
        p2 \in {EmptyDict} \cup OtherProfileChoices }

\* a global file beside the local one: <<global file, local file>>; the
\* global file holds a schedule key, a version 4 configuration with legacy
\* keys, or a version below the floor
InstalledFiles ==
    LET p == ProfileIds[1]
        globals == {
            profileKey("schedule.mode", p) :> DAY,
            ("config.version" :> 4)
              @@ profileKey("snapshots.include_folders", p)
                   :> <<"/", "b", ":", "/", "a">>
              @@ profileKey("snapshots.automatic_backup_mode", p) :> WEEK
              @@ "gnome.show_hidden_files" :> TRUE,
            "config.version" :> 3 }
        locals == {
            EmptyDict,
            "config.version" :> CONFIG_VERSION,
            profileKey("schedule.mode", p) :> MONTH,
            ("config.version" :> 5)
              @@ profileKey("snapshots.include", p)
                   :> << <<<<"/", "x">>, 1>> >>,
            ("config.version" :> 4)
              @@ profileKey("snapshots.include_folders", p)
                   :> <<"/", "a", ":", "/", "b">> }
    IN  globals \X locals

InitMigrator ==
    /\ \/ /\ globalFile = EmptyDict
          /\ file \in ConfigFiles
       \/ \E pair \in InstalledFiles : /\ globalFile = pair[1]
                                       /\ file = pair[2]
    /\ orig = file
    /\ dict = EmptyDict
    /\ ccv = 0
    /\ pc = "start"
    /\ exitCode = -1
    /\ steps = <<>>
    /\ saves = 0
    /\ results = <<>>

-----------------------------------------------------------------------------
(* Config.__init__, from reading the files to the end of the migration.    *)

\* if currentConfigVersion < self.CONFIG_VERSION:
NeedsMigration(version) == version < CONFIG_VERSION

\* a floor that is one too low: version 3 would be migrated
IsUnsupported_OffByOne(version) == version < MIN_CONFIG_VERSION - 1

\* if currentConfigVersion < 4: ... sys.exit(2)
IsUnsupported(version) == version < MIN_CONFIG_VERSION

\* the update to version 5 is skipped for a version 4 file
NeedsUpdateTo5_Skipped(version) == version < 4

NeedsUpdateTo5(version) == version < 5

NeedsUpdateTo6(version) == version < 6

FATAL_EXIT_CODE == 2

\* a file without the field is taken for the oldest supported version
currentConfigVersion_AssumesOldest(d) ==
    intValue(d, "config.version", MIN_CONFIG_VERSION)

\* currentConfigVersion = self.intValue('config.version', self.CONFIG_VERSION)
currentConfigVersion(d) == intValue(d, "config.version", CONFIG_VERSION)

\* self.load(...); self.append(...); currentConfigVersion = self.intValue(...)
Load ==
    /\ pc = "start"
    /\ dict' = append(load(globalFile), file)
    /\ ccv' = currentConfigVersion(dict')
    /\ steps' = <<>>
    /\ pc' = "check"
    /\ UNCHANGED <<file, exitCode, saves, results, orig>>
    /\ UNCHANGED <<globalFile, gateVars, raceVars, cronVars, readVars>>

\* the version is the current one (or a later one): nothing to migrate
NoMigration ==
    /\ pc = "check"
    /\ ~NeedsMigration(ccv)
    /\ pc' = "done"
    /\ results' = Append(results, dict)
    /\ UNCHANGED <<file, dict, ccv, exitCode, steps, saves, orig>>
    /\ UNCHANGED <<globalFile, gateVars, raceVars, cronVars, readVars>>

\* logger.error(...); sys.exit(2)
FatalExit ==
    /\ pc = "check"
    /\ NeedsMigration(ccv)
    /\ IsUnsupported(ccv)
    /\ exitCode' = FATAL_EXIT_CODE
    /\ pc' = "exit"
    /\ UNCHANGED <<file, dict, ccv, steps, saves, results, orig>>
    /\ UNCHANGED <<globalFile, gateVars, raceVars, cronVars, readVars>>

BeginMigration ==
    /\ pc = "check"
    /\ NeedsMigration(ccv)
    /\ ~IsUnsupported(ccv)
    /\ pc' = "v5"
    /\ UNCHANGED <<file, dict, ccv, exitCode, steps, saves, results, orig>>
    /\ UNCHANGED <<globalFile, gateVars, raceVars, cronVars, readVars>>

Update5 ==
    /\ pc = "v5"
    /\ IF NeedsUpdateTo5(ccv)
         THEN /\ dict' = UpdateToVersion5(dict)
              /\ steps' = Append(steps, 5)
         ELSE UNCHANGED <<dict, steps>>
    /\ pc' = "v6"
    /\ UNCHANGED <<file, ccv, exitCode, saves, results, orig>>
    /\ UNCHANGED <<globalFile, gateVars, raceVars, cronVars, readVars>>

Update6 ==
    /\ pc = "v6"
    /\ IF NeedsUpdateTo6(ccv)
         THEN /\ dict' = UpdateToVersion6(dict)
              /\ steps' = Append(steps, 6)
         ELSE UNCHANGED <<dict, steps>>
    /\ pc' = "save"
    /\ UNCHANGED <<file, ccv, exitCode, saves, results, orig>>
    /\ UNCHANGED <<globalFile, gateVars, raceVars, cronVars, readVars>>

\* self.save(): set config.version, write the store to the local config file
Save ==
    /\ pc = "save"
    /\ dict' = SaveDict(dict)
    /\ file' = dict'
    /\ saves' = saves + 1
    /\ results' = Append(results, dict')
    /\ pc' = "done"
    /\ UNCHANGED <<ccv, exitCode, steps, orig>>
    /\ UNCHANGED <<globalFile, gateVars, raceVars, cronVars, readVars>>

\* the program is started again on the file the last run left
Restart ==
    /\ pc = "done"
    /\ Len(results) < MaxLoads
    /\ pc' = "start"
    /\ dict' = EmptyDict
    /\ UNCHANGED <<file, ccv, exitCode, steps, saves, results, orig>>
    /\ UNCHANGED <<globalFile, gateVars, raceVars, cronVars, readVars>>

Init ==
    /\ InitMigrator
    /\ stamp = <<>>
    /\ now = 0
    /\ due = <<>>
    /\ error = ""
    /\ written = FALSE
    /\ jobs = [j \in Jobs |-> JobStart]
    /\ useLock = FALSE
    /\ lock = 0
    /\ udev = UdevFine
    /\ udevRules = {}
    /\ lineOut = NoLineOut
    /\ firstOut = NoLineOut
    /\ linesOut = <<>>
    /\ crontab = <<>>
    /\ setupOut = <<>>
    /\ reply = <<>>

Next ==
    \/ Load
    \/ NoMigration
    \/ FatalExit
    \/ BeginMigration
    \/ Update5
    \/ Update6
    \/ Save
    \/ Restart

Spec == Init /\ [][Next]_vars

-----------------------------------------------------------------------------
(* Dates and times (datetime.datetime, datetime.date, datetime.timedelta). *)

MINUTES_PER_HOUR == 60
MINUTES_PER_DAY == 1440
DAYS_PER_WEEK == 7

\* datetime.date(): the day number (date.toordinal()) of a datetime
DateOf(t) == t \div MINUTES_PER_DAY

\* date.weekday(): Monday is 0, Sunday is 6; day number 1 was a Monday
Weekday(ordinal) == (ordinal + 6) % DAYS_PER_WEEK

IsLeap(year) == year % 4 = 0 /\ (year % 100 # 0 \/ year % 400 = 0)

DaysInMonth(year, month) ==
    IF month = 2 THEN (IF IsLeap(year) THEN 29 ELSE 28)
    ELSE IF month \in {4, 6, 9, 11} THEN 30
    ELSE 31

\* number of days before January 1st of the year
DaysBeforeYear(year) ==
    LET y == year - 1
    IN  y * 365 + y \div 4 - y \div 100 + y \div 400

RECURSIVE DaysBeforeMonth(_, _)
DaysBeforeMonth(year, month) ==
    IF month = 1 THEN 0
    ELSE DaysBeforeMonth(year, month - 1) + DaysInMonth(year, month - 1)

\* date(year, month, day).toordinal(), for a date <<year, month, day>>
ToOrdinal(ymd) == DaysBeforeYear(ymd[1]) + DaysBeforeMonth(ymd[1], ymd[2]) + ymd[3]

\* date.fromordinal(ordinal) as <<year, month, day>>
FromOrdinal(ordinal) ==
    LET year == CHOOSE y \in (ordinal \div 366)..(ordinal \div 365 + 1) :
                    /\ DaysBeforeYear(y) < ordinal
                    /\ ordinal <= DaysBeforeYear(y + 1)
        n == ordinal - DaysBeforeYear(year)
        month == CHOOSE m \in 1..12 :
                    /\ DaysBeforeMonth(year, m) < n
                    /\ n <= DaysBeforeMonth(year, m) + DaysInMonth(year, m)
    IN  <<year, month, n - DaysBeforeMonth(year, month)>>

\* datetime.datetime(y, m, d, hour, minute) for the date with this day number
At(ordinal, hour, minute) ==
    ordinal * MINUTES_PER_DAY + hour * MINUTES_PER_HOUR + minute

\* datetime.date.min and datetime.date.max as day numbers: a date has a
\* year from 1 (datetime.MINYEAR) to 9999 (datetime.MAXYEAR)
MinDate == ToOrdinal(<<1, 1, 1>>)
MaxDate == ToOrdinal(<<9999, 12, 31>>)

\* date - datetime.timedelta(days = days): <<the day number>>, or <<>> when
\* the result is outside date.min .. date.max and the subtraction raises
\* OverflowError
DateMinus(ordinal, days) ==
    IF ordinal - days < MinDate \/ ordinal - days > MaxDate THEN <<>>
    ELSE <<ordinal - days>>

\* datetime - datetime.timedelta(minutes = minutes): <<the instant>>, or
\* <<>> when the subtraction raises OverflowError
DateTimeMinus(t, minutes) ==
    LET day == DateOf(t - (minutes % MINUTES_PER_DAY))
                 - (minutes \div MINUTES_PER_DAY)
    IN  IF day < MinDate \/ day > MaxDate THEN <<>>
        ELSE <<t - minutes>>

-----------------------------------------------------------------------------
(* The elapsed-time gate: Config.backupScheduled and Config.olderThan.     *)

scheduleMode(d, profile_id) ==
    profileIntValue(d, "schedule.mode", NONE, profile_id)

scheduleRepeatedPeriod(d, profile_id) ==
    profileIntValue(d, "schedule.repeatedly.period", 1, profile_id)

scheduleRepeatedUnit(d, profile_id) ==
    profileIntValue(d, "schedule.repeatedly.unit", DAY, profile_id)

\* firstDay = now.date() - datetime.timedelta(days = now.date().day + 1);
\* <<>> when the subtraction raises OverflowError
FirstDayStart(clock) ==
    LET start == DateMinus(DateOf(clock), FromOrdinal(DateOf(clock))[3] + 1)
    IN  IF start = <<>> THEN <<>> ELSE FromOrdinal(start[1])

\* one pass of the loop: firstDay.replace(...); <<>> when replace raises
\* ValueError because the month has no such day or the year is below 1
MonthBack(ymd) ==
    IF ymd[2] = 1
      THEN IF ymd[1] - 1 < 1 THEN <<>>
           ELSE <<ymd[1] - 1, 12, ymd[3]>>
    ELSE IF ymd[3] <= DaysInMonth(ymd[1], ymd[2] - 1)
      THEN <<ymd[1], ymd[2] - 1, ymd[3]>>
    ELSE <<>>

\* for _idx in range(n): ...; <<>> once a pass has raised
RECURSIVE MonthWalk(_, _)
MonthWalk(ymd, n) ==
    IF n <= 0 \/ ymd = <<>> THEN ymd
    ELSE MonthWalk(MonthBack(ymd), n - 1)

\* the loop runs value times in place of value - 1
FirstDay_WalksPeriod(value, clock) == MonthWalk(FirstDayStart(clock), value)

\* firstDay after the loop of the month branch, <<>> if a line has raised
FirstDay(value, clock) == MonthWalk(FirstDayStart(clock), value - 1)

\* The branches of olderThan give <<b>> when they return b and <<>> when
\* they raise.

\* '<=' for '<': due at the instant the hours have elapsed
olderThanHours_Inclusive(time, value, clock) ==
    LET ref == DateTimeMinus(clock, value * MINUTES_PER_HOUR)
    IN  IF ref = <<>> THEN <<>> ELSE <<time <= ref[1]>>

\* return time < now - datetime.timedelta(hours = value)
olderThanHours(time, value, clock) ==
    LET ref == DateTimeMinus(clock, value * MINUTES_PER_HOUR)
    IN  IF ref = <<>> THEN <<>> ELSE <<time < ref[1]>>

\* one day too few: a timestamp of today is old enough for one day
olderThanDays_OneDayShort(time, value, clock) ==
    LET ref == DateMinus(DateOf(clock), value - 1)
    IN  IF ref = <<>> THEN <<>> ELSE <<DateOf(time) <= ref[1]>>

\* sliding window of value * 24 hours in place of the dates
olderThanDays_Sliding(time, value, clock) ==
    LET ref == DateTimeMinus(clock, value * MINUTES_PER_DAY)
    IN  IF ref = <<>> THEN <<>> ELSE <<time <= ref[1]>>

\* return time.date() <= now.date() - datetime.timedelta(days = value)
olderThanDays(time, value, clock) ==
    LET ref == DateMinus(DateOf(clock), value)
    IN  IF ref = <<>> THEN <<>> ELSE <<DateOf(time) <= ref[1]>>

\* now.date() - timedelta(days = now.date().weekday())
\*            - timedelta(weeks = weeks)
WeeksBeforeMonday(clock, weeks) ==
    LET monday == DateMinus(DateOf(clock), Weekday(DateOf(clock)))
    IN  IF monday = <<>> THEN <<>>
        ELSE DateMinus(monday[1], DAYS_PER_WEEK * weeks)

\* one week too few: a timestamp of this week is old enough for one week
olderThanWeeks_OneWeekShort(time, value, clock) ==
    LET ref == WeeksBeforeMonday(clock, value - 2)
    IN  IF ref = <<>> THEN <<>> ELSE <<DateOf(time) < ref[1]>>

\* sliding window of value * 7 days in place of the Monday of the week
olderThanWeeks_Sliding(time, value, clock) ==
    LET ref == DateMinus(DateOf(clock), DAYS_PER_WEEK * (value - 1))
    IN  IF ref = <<>> THEN <<>> ELSE <<DateOf(time) < ref[1]>>

\* return time.date() < now.date() - timedelta(days = now.date().weekday())
\*                                 - timedelta(weeks = value - 1)
olderThanWeeks(time, value, clock) ==
    LET ref == WeeksBeforeMonday(clock, value - 1)
    IN  IF ref = <<>> THEN <<>> ELSE <<DateOf(time) < ref[1]>>

\* return time.date() < firstDay
olderThanMonths(time, value, clock) ==
    LET firstDay == FirstDay(value, clock)
    IN  IF firstDay = <<>> THEN <<>>
        ELSE <<DateOf(time) < ToOrdinal(firstDay)>>

\* the units above MONTH walk the months as MONTH does
olderThan_CoarserWalksMonths(time, value, unit, clock) ==
    IF unit <= HOUR THEN olderThanHours(time, value, clock)
    ELSE IF unit <= DAY THEN olderThanDays(time, value, clock)
    ELSE IF unit <= WEEK THEN olderThanWeeks(time, value, clock)
    ELSE olderThanMonths(time, value, clock)

\* olderThan(time, value, unit) with clock = datetime.datetime.now():
\* <<b>> when it returns b, <<>> when it raises
olderThan(time, value, unit, clock) ==
    IF unit <= HOUR THEN olderThanHours(time, value, clock)
    ELSE IF unit <= DAY THEN olderThanDays(time, value, clock)
    ELSE IF unit <= WEEK THEN olderThanWeeks(time, value, clock)
    ELSE IF unit <= MONTH THEN olderThanMonths(time, value, clock)
    ELSE <<TRUE>>

\* olderThan raises instead of returning
olderThanRaises(time, value, unit, clock) ==
    olderThan(time, value, unit, clock) = <<>>

\* the exception olderThan raises, "" when it returns: ValueError from
\* date.replace in the loop of the month branch, OverflowError from a
\* subtraction that leaves the range of the dates
olderThanError(time, value, unit, clock) ==
    IF ~olderThanRaises(time, value, unit, clock) THEN ""
    ELSE IF unit > WEEK /\ unit <= MONTH /\ FirstDayStart(clock) # <<>>
      THEN "ValueError"
    ELSE "OverflowError"

\* every mode from REPEATEDLY upwards goes through the gate
backupScheduled_GatesCoarserModes(d, profile_id, last_time, clock) ==
    IF scheduleMode(d, profile_id) < REPEATEDLY THEN <<TRUE>>
    ELSE IF last_time = <<>> THEN <<TRUE>>
    ELSE olderThan(last_time[1],
                   scheduleRepeatedPeriod(d, profile_id),
                   scheduleRepeatedUnit(d, profile_id), clock)

\* a missing timestamp is taken for 'not due'
backupScheduled_MissingNotDue(d, profile_id, last_time, clock) ==
    IF scheduleMode(d, profile_id) \notin {REPEATEDLY, UDEV} THEN <<TRUE>>
    ELSE IF last_time = <<>> THEN <<FALSE>>
    ELSE olderThan(last_time[1],
                   scheduleRepeatedPeriod(d, profile_id),
                   scheduleRepeatedUnit(d, profile_id), clock)

\* backupScheduled(profile_id): last_time is what tools.readTimeStamp gave
\* for the spool file of the profile, <<>> for None; <<b>> when it returns
\* b, <<>> when olderThan raises
backupScheduled(d, profile_id, last_time, clock) ==
    IF scheduleMode(d, profile_id) \notin {REPEATEDLY, UDEV} THEN <<TRUE>>
    ELSE IF last_time = <<>> THEN <<TRUE>>
    ELSE olderThan(last_time[1],
                   scheduleRepeatedPeriod(d, profile_id),
                   scheduleRepeatedUnit(d, profile_id), clock)

\* backupScheduled raises instead of returning: only olderThan can raise
backupScheduledRaises(d, profile_id, last_time, clock) ==
    backupScheduled(d, profile_id, last_time, clock) = <<>>

\* the exception backupScheduled raises, "" when it returns
backupScheduledError(d, profile_id, last_time, clock) ==
    IF ~backupScheduledRaises(d, profile_id, last_time, clock) THEN ""
    ELSE olderThanError(last_time[1],
                        scheduleRepeatedPeriod(d, profile_id),
                        scheduleRepeatedUnit(d, profile_id), clock)

-----------------------------------------------------------------------------
(* The gate's runs: the schedule settings of one profile, the spool file   *)
(* and the clock.                                                          *)

MaxPeriod == 3                  \* largest stored repeat period

GateProfile == ProfileIds[1]

\* stored repeat units: two in each bucket of olderThan, and one above MONTH
RepeatUnits == {_5_MIN, HOUR, CUSTOM_HOUR, DAY, UDEV, WEEK, MONTH, YEAR}

BASE_MONDAY == ToOrdinal(<<2023, 5, 22>>)    \* day 738662, a Monday

WINTER_DAY == ToOrdinal(<<2024, 2, 10>>)     \* a day of a February

\* the instants at which the program is run: the Sunday before the base
\* week, instants of the base week, the Monday after it, and a day of the
\* next February, from where the month walk crosses the turn of the year
Nows == {
    At(WINTER_DAY, 9, 0),
    At(BASE_MONDAY, 12, 40),
    At(BASE_MONDAY - 1, 23, 59),
    At(BASE_MONDAY, 0, 0),
    At(BASE_MONDAY, 12, 0),
    At(BASE_MONDAY + 2, 9, 30),
    At(BASE_MONDAY + 3, 15, 0),
    At(BASE_MONDAY + 6, 23, 59),
    At(BASE_MONDAY + 7, 0, 0),
    At(BASE_MONDAY + 7, 12, 0),
    At(ToOrdinal(<<2024, 4, 15>>), 9, 0) }

\* the instants the spool file may hold: whole hours and a minute more or
\* less before Thursday 15:00, the ends and starts of the days and of the
\* Mondays before it, over MaxPeriod + 1 weeks back, one instant ahead, and
\* the days around the 29th and 30th of the months before the clock's
MonthEnds ==
    { At(ToOrdinal(ymd), 12, 0) :
        ymd \in { <<2023, 2, 28>>, <<2023, 3, 28>>, <<2023, 3, 29>>,
                  <<2023, 4, 28>>, <<2023, 4, 29>>,
                  <<2023, 12, 29>>, <<2023, 12, 30>>,
                  <<2024, 1, 29>>, <<2024, 1, 30>> } }

LastRuns ==
    MonthEnds \cup
    { At(BASE_MONDAY + 3, 15, 0) - h * MINUTES_PER_HOUR + m :
        h \in 1..(MaxPeriod + 1), m \in {-1, 0, 1} }
    \cup { At(BASE_MONDAY + 3 - k, 23, 59) : k \in 1..(MaxPeriod + 1) }
    \cup { At(BASE_MONDAY + 3 - k, 0, 0) : k \in 1..(MaxPeriod + 1) }
    \cup { At(BASE_MONDAY - DAYS_PER_WEEK * w, 0, 0) : w \in 0..MaxPeriod }
    \cup { At(BASE_MONDAY - DAYS_PER_WEEK * w - 1, 23, 59) : w \in 0..MaxPeriod }
    \cup { At(BASE_MONDAY + 8, 10, 0) }

GateConfigs ==
    { ("config.version" :> CONFIG_VERSION) @@ m @@ p @@ u :
        m \in Opt(profileKey("schedule.mode", GateProfile), ScheduleModes),
        p \in Opt(profileKey("schedule.repeatedly.period", GateProfile),
                  1..MaxPeriod),
        u \in Opt(profileKey("schedule.repeatedly.unit", GateProfile),
                  RepeatUnits) }

InitGate ==
    /\ dict \in GateConfigs
    /\ globalFile = EmptyDict
    /\ file = dict
    /\ orig = dict
    /\ ccv = CONFIG_VERSION
    /\ pc = "done"
    /\ exitCode = -1
    /\ steps = <<>>
    /\ saves = 0
    /\ results = <<>>
    /\ stamp \in {<<>>} \cup {<<t>> : t \in LastRuns}
    /\ now \in Nows
    /\ due = <<>>
    /\ error = ""
    /\ written = FALSE
    /\ jobs = [j \in Jobs |-> JobStart]
    /\ useLock = FALSE
    /\ lock = 0
    /\ udev = UdevFine
    /\ udevRules = {}
    /\ lineOut = NoLineOut
    /\ firstOut = NoLineOut
    /\ linesOut = <<>>
    /\ crontab = <<>>
    /\ setupOut = <<>>
    /\ reply = <<>>

\* the clock moves on; what the gate answered was for the instant before
Tick ==
    /\ \E t \in Nows : t > now /\ now' = t
    /\ due' = <<>>
    /\ error' = ""
    /\ UNCHANGED <<dict, stamp, written>>
    /\ UNCHANGED <<migratorVars, raceVars, cronVars, readVars>>

\* a scheduled job asks self.backupScheduled(profile_id)
CheckSchedule ==
    /\ due = <<>>
    /\ error = ""
    /\ due' = backupScheduled(dict, GateProfile, stamp, now)
    /\ error' = backupScheduledError(dict, GateProfile, stamp, now)
    /\ UNCHANGED <<dict, stamp, now, written>>
    /\ UNCHANGED <<migratorVars, raceVars, cronVars, readVars>>

\* the backup the gate let run has ended and its caller writes the clock
\* into the spool file; the next question is a new call
WriteStamp ==
    /\ due = <<TRUE>>
    /\ stamp' = <<now>>
    /\ written' = TRUE
    /\ due' = <<>>
    /\ error' = ""
    /\ UNCHANGED <<dict, now>>
    /\ UNCHANGED <<migratorVars, raceVars, cronVars, readVars>>

NextGate ==
    \/ Tick
    \/ CheckSchedule
    \/ WriteStamp

SpecGate == InitGate /\ [][NextGate]_vars

-----------------------------------------------------------------------------
(* Two scheduled invocations of one profile: each asks the gate, runs the  *)
(* backup if the gate lets it, and writes the spool file. backupScheduled  *)
(* only reads the spool file; the lock is the caller's.                    *)

\* the gated modes and one mode the gate lets through
RaceModes == {REPEATEDLY, UDEV, DAY}

RaceConfigs ==
    { ("config.version" :> CONFIG_VERSION) @@ m @@ p @@ u :
        m \in { profileKey("schedule.mode", GateProfile) :> v : v \in RaceModes },
        p \in Opt(profileKey("schedule.repeatedly.period", GateProfile),
                  1..MaxPeriod),
        u \in Opt(profileKey("schedule.repeatedly.unit", GateProfile),
                  RepeatUnits) }

\* what the spool file holds when the invocations start: nothing, the
\* Sunday and the Thursday before the base week, a day of April
RaceStamps ==
    { <<>>,
      <<At(BASE_MONDAY - 1, 23, 59)>>,
      <<At(BASE_MONDAY - 4, 0, 0)>>,
      <<At(ToOrdinal(<<2023, 4, 28>>), 12, 0)>> }

\* the instants of the invocations: two of one Monday hour, the Thursday
\* of that week and the Monday after it
RaceNows == {
    At(BASE_MONDAY, 12, 0),
    At(BASE_MONDAY, 12, 40),
    At(BASE_MONDAY + 3, 15, 0),
    At(BASE_MONDAY + 7, 0, 0) }

InitRace ==
    /\ dict \in RaceConfigs
    /\ globalFile = EmptyDict
    /\ file = dict
    /\ orig = dict
    /\ ccv = CONFIG_VERSION
    /\ pc = "done"
    /\ exitCode = -1
    /\ steps = <<>>
    /\ saves = 0
    /\ results = <<>>
    /\ stamp \in RaceStamps
    /\ now \in RaceNows
    /\ due = <<>>
    /\ error = ""
    /\ written = FALSE
    /\ jobs = [j \in Jobs |-> JobStart]
    /\ useLock \in BOOLEAN
    /\ lock = 0
    /\ udev = UdevFine
    /\ udevRules = {}
    /\ lineOut = NoLineOut
    /\ firstOut = NoLineOut
    /\ linesOut = <<>>
    /\ crontab = <<>>
    /\ setupOut = <<>>
    /\ reply = <<>>

\* invocation j, once it has the lock if there is one, asks
\* self.backupScheduled(profile_id); it goes on to the backup when the
\* answer is 'due' and ends, giving the lock back, when it is not or when
\* the call raises
JobCheck(j) ==
    /\ jobs[j].pc = "start"
    /\ useLock => lock = 0
    /\ LET answer == backupScheduled(dict, GateProfile, stamp, now)
       IN  /\ jobs' = [jobs EXCEPT ![j] =
                  [pc |-> IF answer = <<TRUE>> THEN "backup" ELSE "done",
                   read |-> stamp,
                   due |-> answer,
                   error |-> backupScheduledError(dict, GateProfile,
                                                  stamp, now),
                   at |-> now]]
           /\ lock' = IF useLock /\ answer = <<TRUE>> THEN j ELSE lock
    /\ UNCHANGED <<dict, stamp, now, due, error, written, useLock>>
    /\ UNCHANGED <<migratorVars, cronVars, readVars>>

\* the backup of invocation j has ended: it writes the clock into the spool
\* file, whatever the file holds by now, and gives the lock back
JobWrite(j) ==
    /\ jobs[j].pc = "backup"
    /\ stamp' = <<now>>
    /\ written' = TRUE
    /\ jobs' = [jobs EXCEPT ![j].pc = "done"]
    /\ lock' = 0
    /\ UNCHANGED <<dict, now, due, error, useLock>>
    /\ UNCHANGED <<migratorVars, cronVars, readVars>>

\* the clock moves on while an invocation waits or runs its backup
RaceTick ==
    /\ \E t \in RaceNows : t > now /\ now' = t
    /\ UNCHANGED <<dict, stamp, due, error, written>>
    /\ UNCHANGED <<migratorVars, raceVars, cronVars, readVars>>

NextRace ==
    \/ RaceTick
    \/ \E j \in Jobs : JobCheck(j)
    \/ \E j \in Jobs : JobWrite(j)

SpecRace == InitRace /\ [][NextRace]_vars

-----------------------------------------------------------------------------
(* The schedule compiler: _cron_line, _cron_cmd, profiles_cron_lines and   *)
(* their caller setupCron. Crontab text is a sequence of characters.       *)

profileBoolValue(d, name, default, profile_id) ==
    IF hasKey(d, profileKey(name, profile_id))
      THEN d[profileKey(name, profile_id)] ELSE default

setProfileStrValue(d, name, value, profile_id) ==
    setValue(d, profileKey(name, profile_id), value)

scheduleDebug(d, profile_id) ==
    profileBoolValue(d, "schedule.debug", FALSE, profile_id)

scheduleTime(d, profile_id) == profileIntValue(d, "schedule.time", 0, profile_id)

scheduleDay(d, profile_id) == profileIntValue(d, "schedule.day", 1, profile_id)

scheduleWeekday(d, profile_id) ==
    profileIntValue(d, "schedule.weekday", 7, profile_id)

customBackupTime(d, profile_id) ==
    profileStrValue(d, "schedule.custom_time",
        <<"8", ",", "1", "2", ",", "1", "8", ",", "2", "3">>, profile_id)

snapshotsMode(d, profile_id) ==
    profileStrValue(d, "snapshots.mode", "local", profile_id)

DEFAULT_RUN_NICE_FROM_CRON == TRUE
DEFAULT_RUN_IONICE_FROM_CRON == TRUE
DEFAULT_REDIRECT_STDOUT_IN_CRON == TRUE
DEFAULT_REDIRECT_STDERR_IN_CRON == FALSE

niceOnCron(d, profile_id) ==
    profileBoolValue(d, "snapshots.cron.nice", DEFAULT_RUN_NICE_FROM_CRON,
                     profile_id)

ioniceOnCron(d, profile_id) ==
    profileBoolValue(d, "snapshots.cron.ionice", DEFAULT_RUN_IONICE_FROM_CRON,
                     profile_id)

redirectStdoutInCron(d, profile_id) ==
    profileBoolValue(d, "snapshots.cron.redirect_stdout",
                     DEFAULT_REDIRECT_STDOUT_IN_CRON, profile_id)

\* self.SNAPSHOT_MODES: the modes it holds, each with whether it has mount
\* tools (the first entry of its tuple is not None)
SNAPSHOT_MODES ==
    [local |-> FALSE, ssh |-> TRUE, local_encfs |-> TRUE, ssh_encfs |-> TRUE]

\* os.path.join(self._LOCAL_MOUNT_ROOT, symlink): a text that is never empty
MountPoint == "_LOCAL_MOUNT_ROOT/symlink"

\* snapshotsPath(profile_id): <<>> when SNAPSHOT_MODES[mode] raises KeyError,
\* else <<path>>: the stored path of a mode without mount tools, the mount
\* point of a mode with them
snapshotsPath(d, profile_id) ==
    LET mode == snapshotsMode(d, profile_id)
    IN  IF mode \notin DOMAIN SNAPSHOT_MODES THEN <<>>
        ELSE IF ~SNAPSHOT_MODES[mode]
          THEN <<profileStrValue(d, "snapshots.path", "", profile_id)>>
        ELSE <<MountPoint>>

\* isConfigured(profile_id): <<>> when snapshotsPath raises KeyError, else
\* <<TRUE>> when the snapshot path and the include list are both not empty
isConfigured(d, profile_id) ==
    LET path == snapshotsPath(d, profile_id)
        includes == profileListValue(d, "snapshots.include", <<>>, profile_id)
    IN  IF path = <<>> THEN <<>>
        ELSE <<path[1] # "" /\ includes # <<>> >>

\* redirectStderrInCron(profile_id): <<>> when isConfigured raises KeyError
redirectStderrInCron(d, profile_id) ==
    LET configured == isConfigured(d, profile_id)
    IN  IF configured = <<>> THEN <<>>
        ELSE <<profileBoolValue(d, "snapshots.cron.redirect_stderr",
                   IF configured[1] THEN TRUE
                   ELSE DEFAULT_REDIRECT_STDERR_IN_CRON,
                   profile_id)>>

\* '%s' % n for an int n: the decimal digits, '-' before those of a negative
DecimalDigits == <<"0", "1", "2", "3", "4", "5", "6", "7", "8", "9">>

RECURSIVE Str(_)
Str(n) ==
    IF n < 0 THEN <<"-">> \o Str(-n)
    ELSE IF n < 10 THEN <<DecimalDigits[n + 1]>>
    ELSE Str(n \div 10) \o <<DecimalDigits[(n % 10) + 1]>>

\* s.replace(old, new): every occurrence of old, from the left
RECURSIVE Replace(_, _, _)
Replace(s, old, new) ==
    IF Len(s) < Len(old) THEN s
    ELSE IF StartsWith(s, old)
      THEN new \o Replace(SubSeq(s, Len(old) + 1, Len(s)), old, new)
    ELSE <<Head(s)>> \o Replace(Tail(s), old, new)

CMD == <<"{", "c", "m", "d", "}">>

\* tools.which() of the three programs, all of them installed
WHICH_BACKINTIME ==
    <<"/", "u", "s", "r", "/", "b", "i", "n", "/", "b", "a", "c", "k", "i",
      "n", "t", "i", "m", "e">>
WHICH_IONICE ==
    <<"/", "u", "s", "r", "/", "b", "i", "n", "/", "i", "o", "n", "i", "c",
      "e">>
WHICH_NICE ==
    <<"/", "u", "s", "r", "/", "b", "i", "n", "/", "n", "i", "c", "e">>

\* _cron_cmd(profile_id), for a Config made with the default config path
\* and a machine where ionice and nice are installed; a profile id is one
\* character. <<>> when redirectStderrInCron raises KeyError, else <<cmd>>
_cron_cmd(d, profile_id) ==
    LET stderr == redirectStderrInCron(d, profile_id)
        c1 == WHICH_BACKINTIME \o <<" ">>
        c2 == c1 \o
              (IF profile_id # "1"
                 THEN <<"-", "-", "p", "r", "o", "f", "i", "l", "e", "-",
                        "i", "d", " ">> \o <<profile_id>> \o <<" ">>
                 ELSE <<>>)
        c3 == c2 \o
              (IF scheduleDebug(d, profile_id)
                 THEN <<"-", "-", "d", "e", "b", "u", "g", " ">> ELSE <<>>)
        c4 == c3 \o <<"b", "a", "c", "k", "u", "p", "-", "j", "o", "b">>
        c5 == c4 \o
              (IF redirectStdoutInCron(d, profile_id)
                 THEN <<" ", ">", "/", "d", "e", "v", "/", "n", "u", "l",
                        "l">>
                 ELSE <<>>)
        c6 == c5 \o
              (IF ~stderr[1] THEN <<>>
               ELSE IF redirectStdoutInCron(d, profile_id)
                 THEN <<" ", "2", ">", "&", "1">>
               ELSE <<" ", "2", ">", "/", "d", "e", "v", "/", "n", "u",
                      "l", "l">>)
        c7 == (IF ioniceOnCron(d, profile_id)
                 THEN WHICH_IONICE \o
                      <<" ", "-", "c", "2", " ", "-", "n", "7", " ">>
                 ELSE <<>>) \o c6
        c8 == (IF niceOnCron(d, profile_id)
                 THEN WHICH_NICE \o <<" ", "-", "n", "1", "9", " ">>
                 ELSE <<>>) \o c7
    IN  IF stderr = <<>> THEN <<>> ELSE <<c8>>

\* hour = self.scheduleTime(profile_id) // 100
CronHour(d, profile_id) == scheduleTime(d, profile_id) \div 100

\* the minute is taken modulo 60
CronMinute_Mod60(d, profile_id) == scheduleTime(d, profile_id) % 60

\* minute = self.scheduleTime(profile_id) % 100
CronMinute(d, profile_id) == scheduleTime(d, profile_id) % 100

\* the custom hours are put in the minute field, with no field before them
CustomCronLine_NoMinute(d, profile_id) ==
    customBackupTime(d, profile_id)
      \o <<" ", "*", " ", "*", " ", "*", " ">> \o CMD

\* cron_line = '0 ' + self.customBackupTime(profile_id) + ' * * * {cmd}'
CustomCronLine(d, profile_id) ==
    <<"0", " ">> \o customBackupTime(d, profile_id)
      \o <<" ", "*", " ", "*", " ", "*", " ">> \o CMD

\* the repeat period is written into the hour field
RepeatedCronLine_EveryPeriod(d, profile_id) ==
    <<"0", " ", "*", "/">> \o Str(scheduleRepeatedPeriod(d, profile_id))
      \o <<" ", "*", " ", "*", " ", "*", " ">> \o CMD

\* the REPEATEDLY branch: a poll every 15 minutes or every hour
RepeatedCronLine(d, profile_id) ==
    IF scheduleRepeatedUnit(d, profile_id) <= DAY
      THEN
          <<"*", "/", "1", "5", " ", "*", " ", "*", " ", "*", " ", "*",
            " ", "{", "c", "m", "d", "}">>
      ELSE
          <<"0", " ", "*", " ", "*", " ", "*", " ", "*", " ", "{", "c",
            "m", "d", "}">>

\* the time-based branches of _cron_line: the text of cron_line at the
\* return of line 1805; the empty text for a mode none of the branches names
TimedCronLine(d, profile_id) ==
    LET backup_mode == scheduleMode(d, profile_id)
        hour == Str(CronHour(d, profile_id))
        minute == Str(CronMinute(d, profile_id))
        day == Str(scheduleDay(d, profile_id))
        weekday == Str(scheduleWeekday(d, profile_id))
    IN  IF AT_EVERY_BOOT = backup_mode THEN
        <<"@", "r", "e", "b", "o", "o", "t", " ", "{", "c", "m", "d", "}">>
        ELSE IF _5_MIN = backup_mode THEN
            <<"*", "/", "5", " ", "*", " ", "*", " ", "*", " ", "*", " ",
              "{", "c", "m", "d", "}">>
        ELSE IF _10_MIN = backup_mode THEN
            <<"*", "/", "1", "0", " ", "*", " ", "*", " ", "*", " ", "*",
              " ", "{", "c", "m", "d", "}">>
        ELSE IF _30_MIN = backup_mode THEN
            <<"*", "/", "3", "0", " ", "*", " ", "*", " ", "*", " ", "*",
              " ", "{", "c", "m", "d", "}">>
        ELSE IF _1_HOUR = backup_mode THEN
            <<"0", " ", "*", " ", "*", " ", "*", " ", "*", " ", "{", "c",
              "m", "d", "}">>
        ELSE IF _2_HOURS = backup_mode THEN
            <<"0", " ", "*", "/", "2", " ", "*", " ", "*", " ", "*", " ",
              "{", "c", "m", "d", "}">>
        ELSE IF _4_HOURS = backup_mode THEN
            <<"0", " ", "*", "/", "4", " ", "*", " ", "*", " ", "*", " ",
              "{", "c", "m", "d", "}">>
        ELSE IF _6_HOURS = backup_mode THEN
            <<"0", " ", "*", "/", "6", " ", "*", " ", "*", " ", "*", " ",
              "{", "c", "m", "d", "}">>
        ELSE IF _12_HOURS = backup_mode THEN
            <<"0", " ", "*", "/", "1", "2", " ", "*", " ", "*", " ", "*",
              " ", "{", "c", "m", "d", "}">>
        ELSE IF CUSTOM_HOUR = backup_mode THEN CustomCronLine(d, profile_id)
        ELSE IF DAY = backup_mode
          THEN minute \o <<" ">> \o hour
                 \o <<" ", "*", " ", "*", " ", "*", " ">> \o CMD
        ELSE IF REPEATEDLY = backup_mode THEN RepeatedCronLine(d, profile_id)
        ELSE IF WEEK = backup_mode
          THEN minute \o <<" ">> \o hour \o <<" ", "*", " ", "*", " ">>
                 \o weekday \o <<" ">> \o CMD
        ELSE IF MONTH = backup_mode
          THEN minute \o <<" ">> \o hour \o <<" ">> \o day
                 \o <<" ", "*", " ", "*", " ">> \o CMD
        ELSE IF YEAR = backup_mode
          THEN minute \o <<" ">> \o hour
                 \o <<" ", "1", " ", "1", " ", "*", " ">> \o CMD
        ELSE <<>>

\* the UDEV branch of _cron_line. env is what the machine answers:
\* setupUdev.isReady, tools.uuidFromPath(dest_path) (<<>> for None) and
\* whether setupUdev.addRule raises. The value has ret, <<>> for False and
\* <<text>> for a str, the configuration and the udev rules after the call,
\* and the errors given to logger.error and notifyError. The mode is 'local'
\* or 'local_encfs' where _cron_cmd is called, so it does not raise.
UdevCronLine(d, profile_id, env, rules) ==
    LET notReady == IF env.isReady THEN <<>> ELSE <<"dbus">>
        mode == snapshotsMode(d, profile_id)
        cached == profileStrValue(d, "snapshots.path.uuid", "", profile_id)
        uuid == IF env.uuid = <<>> THEN cached ELSE env.uuid[1]
        d1 == IF env.uuid = <<>> THEN d
              ELSE setProfileStrValue(d, "snapshots.path.uuid", uuid, profile_id)
    IN  IF mode \notin {"local", "local_encfs"}
          THEN [ret |-> <<>>, d |-> d, rules |-> rules,
                errors |-> notReady \o <<"mode">>]
        ELSE IF env.uuid = <<>> /\ cached = ""
          THEN [ret |-> <<>>, d |-> d, rules |-> rules,
                errors |-> notReady \o <<"uuid">>]
        ELSE IF env.rejects
          THEN [ret |-> <<>>, d |-> d1, rules |-> rules,
                errors |-> notReady \o <<"rule">>]
        ELSE [ret |-> << <<>> >>, d |-> d1,
              rules |-> rules \cup {<<_cron_cmd(d1, profile_id)[1], uuid>>},
              errors |-> notReady]

\* every mode stores the device id the machine answers
_cron_line_CachesUuid(d, profile_id, env, rules) ==
    IF NONE = scheduleMode(d, profile_id)
      THEN [ret |-> << <<>> >>, d |-> d, rules |-> rules, errors |-> <<>>]
    ELSE IF UDEV = scheduleMode(d, profile_id)
      THEN UdevCronLine(d, profile_id, env, rules)
    ELSE [ret |-> <<TimedCronLine(d, profile_id)>>,
          d |-> setProfileStrValue(d, "snapshots.path.uuid", "cached",
                                   profile_id),
          rules |-> rules, errors |-> <<>>]

\* _cron_line(profile_id)
_cron_line(d, profile_id, env, rules) ==
    IF NONE = scheduleMode(d, profile_id)
      THEN [ret |-> << <<>> >>, d |-> d, rules |-> rules, errors |-> <<>>]
    ELSE IF UDEV = scheduleMode(d, profile_id)
      THEN UdevCronLine(d, profile_id, env, rules)
    ELSE [ret |-> <<TimedCronLine(d, profile_id)>>, d |-> d, rules |-> rules,
          errors |-> <<>>]

\* the list comprehension of profiles_cron_lines over the profile ids left:
\* _cron_line(pid).replace('{cmd}', _cron_cmd(pid)); False has no replace,
\* which raises AttributeError and ends the call; then _cron_cmd(pid) is
\* called, for an empty line too, and its KeyError ends the call
RECURSIVE CronLinesOf(_, _, _, _, _, _)

\* one entry of the list: r is what _cron_line(pid) gave and cmd what
\* _cron_cmd(pid) gives
CronLinesEntry(r, cmd, env, ids, lines, errors) ==
    IF r.ret = <<>>
      THEN [raised |-> "AttributeError", lines |-> <<>>, d |-> r.d,
            rules |-> r.rules, errors |-> errors \o r.errors]
    ELSE IF cmd = <<>>
      THEN [raised |-> "KeyError", lines |-> <<>>, d |-> r.d,
            rules |-> r.rules, errors |-> errors \o r.errors]
    ELSE CronLinesOf(r.d, env, r.rules, Tail(ids),
             Append(lines, Replace(r.ret[1], CMD, cmd[1])),
             errors \o r.errors)

\* the entry of the first profile id left, after its _cron_line
CronLinesAfter(r, env, ids, lines, errors) ==
    CronLinesEntry(r, _cron_cmd(r.d, Head(ids)), env, ids, lines, errors)

CronLinesOf(d, env, rules, ids, lines, errors) ==
    IF ids = <<>>
      THEN [raised |-> "", lines |-> lines, d |-> d, rules |-> rules,
            errors |-> errors]
    ELSE CronLinesAfter(_cron_line(d, Head(ids), env, rules), env, ids,
                        lines, errors)

\* nothing is removed
FilterNone_KeepsAll(lines) == lines

\* list(filter(None, cron_lines))
FilterNone(lines) == SelectSeq(lines, LAMBDA l : l # <<>>)

\* profiles_cron_lines()
FilteredLines(r) == [r EXCEPT !.lines = FilterNone(r.lines)]

profiles_cron_lines(d, env, rules) ==
    FilteredLines(CronLinesOf(d, env, rules, profiles(d), <<>>, <<>>))

\* setupCron() from line 1650 on: r is what profiles_cron_lines() gave
\* after setupUdev.clean(). org_crontab_lines are the lines of the user's
\* crontab that Back In Time wrote: schedule.remove_bit_from_crontab takes
\* them out and schedule.append_bit_to_crontab puts the new ones in, the
\* lines of others stay. answers is what the machine answers during the
\* call: whether setupUdev.save raises PermissionDeniedByPolicy, whether
\* schedule.write_crontab succeeds, whether schedule.is_cron_running. An
\* exception of profiles_cron_lines leaves setupCron, and the crontab is
\* not written.
SetupCronWith(r, env, org_crontab_lines, answers) ==
    LET left == [raised |-> r.raised, ret |-> FALSE, d |-> r.d,
                 rules |-> r.rules, crontab |-> org_crontab_lines,
                 errors |-> r.errors]
    IN  IF r.raised # "" THEN left
        ELSE IF env.isReady /\ answers.denied
          THEN [left EXCEPT !.errors = @ \o <<"policy">>]
        ELSE IF r.lines = org_crontab_lines THEN [left EXCEPT !.ret = TRUE]
        ELSE IF ~answers.written
          THEN [left EXCEPT !.errors = @ \o <<"write">>]
        ELSE [left EXCEPT !.ret = TRUE, !.crontab = r.lines,
                          !.errors = IF answers.running THEN @
                                     ELSE @ \o <<"cron">>]

\* setupCron(): setupUdev.clean() leaves none of the rules, then the lines
\* are made
setupCron(d, env, rules, org_crontab_lines, answers) ==
    SetupCronWith(profiles_cron_lines(d, env, {}), env, org_crontab_lines,
                  answers)

-----------------------------------------------------------------------------
(* The compiler's runs: the schedule and storage settings of the profiles, *)
(* the machine of the UDEV branch, the crontab, and calls of _cron_line,   *)
(* profiles_cron_lines and setupCron in any order.                         *)

\* the stored schedule modes: the documented ones and one no branch names
CronModes == ScheduleModes \cup {3}

\* stored times of day: hhmm, the last two at the end of the documented range
CronTimes == {0, 905, 1345, 2360, 2400}

ModeChoices(p) == Opt(profileKey("schedule.mode", p), CronModes)

TimedChoices(p) ==
    { m @@ t @@ dw :
        m \in { profileKey("schedule.mode", p) :> v : v \in {DAY, WEEK, MONTH, YEAR} },
        t \in Opt(profileKey("schedule.time", p), CronTimes),
        dw \in { EmptyDict,
                 (profileKey("schedule.day", p) :> 15)
                   @@ (profileKey("schedule.weekday", p) :> 3) } }

CustomChoices(p) ==
    { (profileKey("schedule.mode", p) :> CUSTOM_HOUR) @@ c :
        c \in { profileKey("schedule.custom_time", p) :> v :
                  v \in { <<"*", "/", "3">>, <<"1", "5">>,
                          <<"0", ",", "1", "2">> } } }

RepeatChoices(p) ==
    { (profileKey("schedule.mode", p) :> REPEATEDLY) @@ u @@ n :
        u \in { profileKey("schedule.repeatedly.unit", p) :> v :
                  v \in {HOUR, DAY, WEEK, MONTH, YEAR} },
        n \in Opt(profileKey("schedule.repeatedly.period", p), {3}) }

UdevChoices(p) ==
    { (profileKey("schedule.mode", p) :> UDEV) @@ m @@ u :
        m \in Opt(profileKey("snapshots.mode", p), {"local_encfs", "ssh"}),
        u \in Opt(profileKey("snapshots.path.uuid", p), {"U0"}) }

\* the settings _cron_cmd reads: the defaults, or every one of them stored
\* with the value that is not its default
CmdChoices(p) ==
    { EmptyDict,
      (profileKey("schedule.debug", p) :> TRUE)
        @@ (profileKey("snapshots.cron.redirect_stdout", p) :> FALSE)
        @@ (profileKey("snapshots.cron.redirect_stderr", p) :> TRUE)
        @@ (profileKey("snapshots.cron.nice", p) :> FALSE)
        @@ (profileKey("snapshots.cron.ionice", p) :> FALSE) }

\* every schedule with the command settings at their defaults, and every
\* mode and every device-started schedule with them stored as well
CronFirstChoices ==
    ModeChoices(ProfileIds[1]) \cup TimedChoices(ProfileIds[1])
      \cup CustomChoices(ProfileIds[1]) \cup RepeatChoices(ProfileIds[1])
      \cup UdevChoices(ProfileIds[1])
      \cup { s1 @@ c :
               s1 \in ModeChoices(ProfileIds[1]) \cup UdevChoices(ProfileIds[1]),
               c \in CmdChoices(ProfileIds[1]) }

\* no second profile, or a second profile that is disabled, timed, started
\* at boot, or started by its device with a mode udev can or cannot serve
CronOtherChoices ==
    { EmptyDict }
    \cup { ("profiles" :> ProfileIds) @@ s2 :
            s2 \in { EmptyDict,
                     profileKey("schedule.mode", ProfileIds[2]) :> AT_EVERY_BOOT,
                     (profileKey("schedule.mode", ProfileIds[2]) :> DAY)
                       @@ (profileKey("schedule.time", ProfileIds[2]) :> 1345),
                     profileKey("schedule.mode", ProfileIds[2]) :> UDEV,
                     (profileKey("schedule.mode", ProfileIds[2]) :> UDEV)
                       @@ (profileKey("snapshots.mode", ProfileIds[2]) :> "ssh"),
                     (profileKey("schedule.mode", ProfileIds[2]) :> DAY)
                       @@ (profileKey("snapshots.mode", ProfileIds[2]) :> "nfs") } }

\* the storage settings isConfigured reads: a local path and an include
\* list, a mode that is mounted, with and without an include list, and a
\* mode SNAPSHOT_MODES does not hold
StoreChoices(p) ==
    { (profileKey("snapshots.path", p) :> "/mnt/b")
        @@ (profileKey("snapshots.include", p) :> << <<"/x", 1>> >>),
      (profileKey("snapshots.mode", p) :> "ssh")
        @@ (profileKey("snapshots.include", p) :> << <<"/x", 1>> >>),
      profileKey("snapshots.mode", p) :> "ssh_encfs",
      (profileKey("snapshots.mode", p) :> "nfs")
        @@ (profileKey("snapshots.path", p) :> "/mnt/b")
        @@ (profileKey("snapshots.include", p) :> << <<"/x", 1>> >>) }

\* a first profile with storage settings: disabled, daily or started by its
\* device
CronStoreChoices ==
    { s1 @@ st :
        s1 \in { EmptyDict,
                 profileKey("schedule.mode", ProfileIds[1]) :> DAY,
                 profileKey("schedule.mode", ProfileIds[1]) :> UDEV },
        st \in StoreChoices(ProfileIds[1]) }

CronConfigs ==
    { ("config.version" :> CONFIG_VERSION) @@ a @@ b :
        a \in CronFirstChoices \cup CronStoreChoices, b \in CronOtherChoices }

\* what the machine can answer during setupCron: all is well, the policy
\* denies saving the udev rules, the crontab cannot be written, cron is not
\* running
CronFine == [denied |-> FALSE, written |-> TRUE, running |-> TRUE]

CronAnswers ==
    { CronFine,
      [CronFine EXCEPT !.denied = TRUE],
      [CronFine EXCEPT !.written = FALSE],
      [CronFine EXCEPT !.running = FALSE] }

\* the machines: all is well, the device is not connected, the rule is
\* rejected, the udev service is not there
UdevMachines ==
    { UdevFine,
      [UdevFine EXCEPT !.uuid = <<>>],
      [UdevFine EXCEPT !.rejects = TRUE],
      [UdevFine EXCEPT !.isReady = FALSE] }

\* a profile of the configuration is started by its device
UsesUdev(d) ==
    \E i \in 1..Len(profiles(d)) : scheduleMode(d, profiles(d)[i]) = UDEV

\* the machines of a configuration: what the machine answers about the
\* device and its rule is asked for a profile started by its device only
MachinesOf(d) ==
    IF UsesUdev(d) THEN UdevMachines
    ELSE {UdevFine, [UdevFine EXCEPT !.isReady = FALSE]}

InitCron ==
    /\ dict \in CronConfigs
    /\ globalFile = EmptyDict
    /\ file = dict
    /\ orig = dict
    /\ ccv = CONFIG_VERSION
    /\ pc = "done"
    /\ exitCode = -1
    /\ steps = <<>>
    /\ saves = 0
    /\ results = <<>>
    /\ stamp = <<>>
    /\ now = 0
    /\ due = <<>>
    /\ error = ""
    /\ written = FALSE
    /\ jobs = [j \in Jobs |-> JobStart]
    /\ useLock = FALSE
    /\ lock = 0
    /\ udev \in MachinesOf(dict)
    /\ udevRules = {}
    /\ lineOut = NoLineOut
    /\ firstOut = NoLineOut
    /\ linesOut = <<>>
    /\ crontab = <<>>
    /\ setupOut = <<>>
    /\ reply = <<>>

\* self._cron_line(profile_id) is called for a profile of the configuration
CronLine(profile_id) ==
    /\ LET r == _cron_line(dict, profile_id, udev, udevRules)
           out == <<[ret |-> r.ret, errors |-> r.errors]>>
       IN  /\ dict' = r.d
           /\ udevRules' = r.rules
           /\ lineOut' = [lineOut EXCEPT ![profile_id] = out]
           /\ firstOut' = IF firstOut[profile_id] = <<>>
                            THEN [firstOut EXCEPT ![profile_id] = out]
                            ELSE firstOut
    /\ UNCHANGED <<udev, linesOut, crontab, setupOut>>
    /\ UNCHANGED <<migratorVars, gateVars, raceVars, readVars>>

\* self.profiles_cron_lines() is called
ProfilesCronLines ==
    /\ LET r == profiles_cron_lines(dict, udev, udevRules)
       IN  /\ dict' = r.d
           /\ udevRules' = r.rules
           /\ linesOut' = <<[raised |-> r.raised, lines |-> r.lines,
                             errors |-> r.errors]>>
    /\ UNCHANGED <<udev, lineOut, firstOut, crontab, setupOut>>
    /\ UNCHANGED <<migratorVars, gateVars, raceVars, readVars>>

\* self.setupCron() is called, and the machine gives one of its answers
SetupCron ==
    /\ \E r \in { setupCron(dict, udev, udevRules, crontab, answers) :
                    answers \in CronAnswers } :
          /\ dict' = r.d
          /\ udevRules' = r.rules
          /\ crontab' = r.crontab
          /\ setupOut' = <<[raised |-> r.raised, ret |-> r.ret,
                            errors |-> r.errors]>>
    /\ UNCHANGED <<udev, lineOut, firstOut, linesOut>>
    /\ UNCHANGED <<migratorVars, gateVars, raceVars, readVars>>

NextCron ==
    \/ \E i \in 1..Len(profiles(dict)) : CronLine(profiles(dict)[i])
    \/ ProfilesCronLines
    \/ SetupCron

SpecCron == InitCron /\ [][NextCron]_vars

-----------------------------------------------------------------------------
(* The retention settings: Config.removeOldSnapshotsDate,                  *)
(* Config.minFreeSpaceMib and Config.sshMaxArgLength. A date is its day    *)
(* number, date.toordinal().                                               *)

DISK_UNIT_MB == 10
DISK_UNIT_GB == 20

\* what a read gives back: the value it returns, or the exception it raises
Returned(v) == [raised |-> "", value |-> v]
Raised(e) == [raised |-> e, value |-> 0]

\* date - datetime.timedelta(days = days)
DateMinusDays(ordinal, days) ==
    IF DateMinus(ordinal, days) = <<>>
      THEN Raised("OverflowError")
      ELSE Returned(DateMinus(ordinal, days)[1])

\* the limit is lifted to the lowest length that works
sshMaxArgLength_Clamps(d, profile_id) ==
    LET value == profileIntValue(d, "snapshots.ssh.max_arg_length", 0,
                                 profile_id)
    IN  IF value # 0 /\ value < 700 THEN Returned(700) ELSE Returned(value)

\* 'if value and value < 700: raise ValueError'
sshMaxArgLength(d, profile_id) ==
    LET value == profileIntValue(d, "snapshots.ssh.max_arg_length", 0,
                                 profile_id)
    IN  IF value # 0 /\ value < 700
          THEN Raised("ValueError")
          ELSE Returned(value)

\* (enabled, value, unit)
removeOldSnapshots(d, profile_id) ==
    << profileBoolValue(d, "snapshots.remove_old_snapshots.enabled", TRUE,
                        profile_id),
       profileIntValue(d, "snapshots.remove_old_snapshots.value", 10,
                       profile_id),
       profileIntValue(d, "snapshots.remove_old_snapshots.unit", YEAR,
                       profile_id) >>

\* unit DAY: today - timedelta(days = value)
removeOldSnapshotsDateDay(today, value) == DateMinusDays(today, value)

\* the cutoff slides with the day of the week
removeOldSnapshotsDateWeek_Sliding(today, value) ==
    DateMinusDays(today, DAYS_PER_WEEK * value)

\* the weeks are counted from the Monday of this week on
removeOldSnapshotsDateWeek_FromThisMonday(today, value) ==
    DateMinusDays(today, Weekday(today) + DAYS_PER_WEEK * (value - 1))

\* unit WEEK: today - timedelta(days = today.weekday() + 7 * value)
removeOldSnapshotsDateWeek(today, value) ==
    DateMinusDays(today, Weekday(today) + DAYS_PER_WEEK * value)

\* only the year is replaced, the day of the month is kept
removeOldSnapshotsDateYear_KeepsDay(today, value) ==
    LET ymd == FromOrdinal(today)
        year == ymd[1] - value
    IN  IF year < 1 \/ year > 9999 \/ ymd[3] > DaysInMonth(year, ymd[2])
          THEN Raised("ValueError")
          ELSE Returned(ToOrdinal(<<year, ymd[2], ymd[3]>>))

\* unit YEAR: today.replace(day = 1, year = today.year - value); replace
\* raises ValueError for a year outside 1..9999
removeOldSnapshotsDateYear(today, value) ==
    LET ymd == FromOrdinal(today)
        year == ymd[1] - value
    IN  IF year < 1 \/ year > 9999
          THEN Raised("ValueError")
          ELSE Returned(ToOrdinal(<<year, ymd[2], 1>>))

\* the switch of the policy is not looked at
removeOldSnapshotsDate_IgnoresEnabled(d, profile_id, today) ==
    LET value == removeOldSnapshots(d, profile_id)[2]
        unit == removeOldSnapshots(d, profile_id)[3]
    IN  IF unit = DAY THEN removeOldSnapshotsDateDay(today, value)
        ELSE IF unit = WEEK THEN removeOldSnapshotsDateWeek(today, value)
        ELSE IF unit = YEAR THEN removeOldSnapshotsDateYear(today, value)
        ELSE Returned(MinDate)

\* today is datetime.date.today()
removeOldSnapshotsDate(d, profile_id, today) ==
    LET enabled == removeOldSnapshots(d, profile_id)[1]
        value == removeOldSnapshots(d, profile_id)[2]
        unit == removeOldSnapshots(d, profile_id)[3]
    IN  IF ~enabled THEN Returned(MinDate)
        ELSE IF unit = DAY THEN removeOldSnapshotsDateDay(today, value)
        ELSE IF unit = WEEK THEN removeOldSnapshotsDateWeek(today, value)
        ELSE IF unit = YEAR THEN removeOldSnapshotsDateYear(today, value)
        ELSE Returned(MinDate)

\* (enabled, value, unit)
minFreeSpace(d, profile_id) ==
    << profileBoolValue(d, "snapshots.min_free_space.enabled", TRUE,
                        profile_id),
       profileIntValue(d, "snapshots.min_free_space.value", 1, profile_id),
       profileIntValue(d, "snapshots.min_free_space.unit", DISK_UNIT_GB,
                       profile_id) >>

\* a number of GiB is handed back as it is stored
minFreeSpaceMib_GbUnscaled(d, profile_id) ==
    LET enabled == minFreeSpace(d, profile_id)[1]
        value == minFreeSpace(d, profile_id)[2]
        unit == minFreeSpace(d, profile_id)[3]
    IN  IF ~enabled THEN 0
        ELSE IF DISK_UNIT_MB = unit THEN value
        ELSE IF DISK_UNIT_GB = unit THEN value
        ELSE 0

minFreeSpaceMib(d, profile_id) ==
    LET enabled == minFreeSpace(d, profile_id)[1]
        value == minFreeSpace(d, profile_id)[2]
        unit == minFreeSpace(d, profile_id)[3]
    IN  IF ~enabled THEN 0
        ELSE IF DISK_UNIT_MB = unit THEN value
        ELSE IF DISK_UNIT_GB = unit THEN value * 1024
        ELSE 0

-----------------------------------------------------------------------------
(* The reads of the retention settings: the settings of one profile, the   *)
(* day, and calls of the three readers in any order.                       *)

\* the largest stored amount (days, weeks, years, MiB or GiB)
MaxValue == 3

\* stored ages: small ones, the default, and the ones that reach back to
\* the years 2 and 1 and to before the year 1 from 2023 and 2024
AgeValues == 0..MaxValue \cup {10, 2022, 2023, 2024}

\* stored age units: the three the code knows, and others
AgeUnits == {DAY, WEEK, YEAR, NONE, HOUR, REPEATEDLY, MONTH}

AgeConfigs ==
    { ("config.version" :> CONFIG_VERSION) @@ e @@ v @@ u :
        e \in Opt(profileKey("snapshots.remove_old_snapshots.enabled",
                             GateProfile), BOOLEAN),
        v \in Opt(profileKey("snapshots.remove_old_snapshots.value",
                             GateProfile), AgeValues),
        u \in Opt(profileKey("snapshots.remove_old_snapshots.unit",
                             GateProfile), AgeUnits) }

SpaceConfigs ==
    { ("config.version" :> CONFIG_VERSION) @@ e @@ v @@ u :
        e \in Opt(profileKey("snapshots.min_free_space.enabled",
                             GateProfile), BOOLEAN),
        v \in Opt(profileKey("snapshots.min_free_space.value",
                             GateProfile), 0..MaxValue \cup {500}),
        u \in Opt(profileKey("snapshots.min_free_space.unit",
                             GateProfile),
                  {DISK_UNIT_MB, DISK_UNIT_GB, NONE, WEEK}) }

ArgConfigs ==
    { ("config.version" :> CONFIG_VERSION) @@ v :
        v \in Opt(profileKey("snapshots.ssh.max_arg_length", GateProfile),
                  {-1, 0, 1, 699, 700, 701, 4096}) }

RetentionConfigs == AgeConfigs \cup SpaceConfigs \cup ArgConfigs

\* the days of one week from Monday to Sunday, a 29 February, the first
\* and the last day of a year
Todays ==
    { BASE_MONDAY + k : k \in 0..6 }
    \cup { ToOrdinal(ymd) :
             ymd \in {<<2024, 2, 29>>, <<2024, 1, 1>>, <<2023, 12, 31>>} }

InitRetention ==
    /\ dict \in RetentionConfigs
    /\ globalFile = EmptyDict
    /\ file = dict
    /\ orig = dict
    /\ ccv = CONFIG_VERSION
    /\ pc = "done"
    /\ exitCode = -1
    /\ steps = <<>>
    /\ saves = 0
    /\ results = <<>>
    /\ stamp = <<>>
    /\ now \in { At(day, 9, 0) : day \in Todays }
    /\ due = <<>>
    /\ error = ""
    /\ written = FALSE
    /\ jobs = [j \in Jobs |-> JobStart]
    /\ useLock = FALSE
    /\ lock = 0
    /\ udev = UdevFine
    /\ udevRules = {}
    /\ lineOut = NoLineOut
    /\ firstOut = NoLineOut
    /\ linesOut = <<>>
    /\ crontab = <<>>
    /\ setupOut = <<>>
    /\ reply = <<>>

\* a caller asks self.removeOldSnapshotsDate(profile_id)
ReadCutoff ==
    /\ LET r == removeOldSnapshotsDate(dict, GateProfile, DateOf(now))
       IN  reply' = <<[call |-> "removeOldSnapshotsDate",
                       raised |-> r.raised, value |-> r.value]>>
    /\ UNCHANGED dict
    /\ UNCHANGED <<migratorVars, gateVars, raceVars, cronVars>>

\* a caller asks self.minFreeSpaceMib(profile_id)
ReadMinFree ==
    /\ reply' = <<[call |-> "minFreeSpaceMib", raised |-> "",
                   value |-> minFreeSpaceMib(dict, GateProfile)]>>
    /\ UNCHANGED dict
    /\ UNCHANGED <<migratorVars, gateVars, raceVars, cronVars>>

\* a caller asks self.sshMaxArgLength(profile_id)
ReadMaxArg ==
    /\ LET r == sshMaxArgLength(dict, GateProfile)
       IN  reply' = <<[call |-> "sshMaxArgLength",
                       raised |-> r.raised, value |-> r.value]>>
    /\ UNCHANGED dict
    /\ UNCHANGED <<migratorVars, gateVars, raceVars, cronVars>>

NextRetention ==
    \/ ReadCutoff
    \/ ReadMinFree
    \/ ReadMaxArg

SpecRetention == InitRetention /\ [][NextRetention]_vars

-----------------------------------------------------------------------------
(* Properties of the load-time migration, checked under Spec.              *)

\* the first load of the program has come to its end
FirstLoadDone == pc = "done" /\ Len(results) = 1

\* the configuration before the first load: the keys of the global file
\* with the keys of the local file over them
Stored == append(load(globalFile), orig)

HasStoredVersion == hasKey(Stored, "config.version")

LegacyIncludeKey(p) == profileKey("snapshots.include_folders", p)
LegacyExcludeKey(p) == profileKey("snapshots.exclude_patterns", p)
IncludeKey(p) == profileKey("snapshots.include", p)
ExcludeKey(p) == profileKey("snapshots.exclude", p)

ProfilesOf(d) == {profiles(d)[i] : i \in 1..Len(profiles(d))}

\* C1: a stored config.version below 4 is fatal: the load can only end in
\* sys.exit(2), and when the process has exited no migration step has run,
\* the loaded keys and the file are as they were, and nothing was saved.
C1_BelowFloorIsFatal ==
    /\ (HasStoredVersion /\ Stored["config.version"] < 4)
          => /\ pc \in {"start", "check", "exit"}
             /\ (pc = "check" => ENABLED FatalExit)
    /\ pc = "exit"
          => /\ exitCode = 2
             /\ HasStoredVersion /\ Stored["config.version"] < 4
             /\ steps = <<>>
             /\ dict = Stored
             /\ file = orig
             /\ saves = 0
             /\ results = <<>>

\* a version 3 file with legacy keys has made the process exit
C1_Witness ==
    /\ pc = "exit"
    /\ exitCode = 2
    /\ Stored["config.version"] = 3
    /\ hasKey(Stored, LegacyIncludeKey("1"))
    /\ hasKey(Stored, "gnome.show_hidden_files")

\* C2: for a found version v with 4 <= v < 6 the load runs exactly the steps
\* v+1 .. 6 in increasing order, and at its end the version field is 6 and
\* the store has been written to the file.
C2_StepsInOrderThenSaved ==
    (ccv >= 4 /\ ccv < CONFIG_VERSION) =>
        /\ pc = "v6" => steps = [i \in 1..(5 - ccv) |-> ccv + i]
        /\ pc \in {"save", "done"}
              => steps = [i \in 1..(CONFIG_VERSION - ccv) |-> ccv + i]
        /\ pc = "done" => /\ hasKey(dict, "config.version")
                          /\ dict["config.version"] = CONFIG_VERSION
                          /\ file = dict
                          /\ saves = 1

\* a version 4 file has gone through step 5, then step 6, and was saved
C2_Witness ==
    /\ pc = "done"
    /\ ccv = 4
    /\ steps = <<5, 6>>
    /\ saves = 1
    /\ file["config.version"] = 6

\* C3: a load of a configuration at the current version changes no key and
\* saves nothing, and every further load of the file a load has left gives
\* the configuration the first load gave.
C3_MigrationIdempotent ==
    /\ (FirstLoadDone /\ HasStoredVersion
          /\ Stored["config.version"] = CONFIG_VERSION)
          => /\ dict = Stored
             /\ file = orig
             /\ saves = 0
             /\ steps = <<>>
    /\ \A i \in 2..Len(results) : results[i] = results[1]
    /\ (Len(results) >= 2 /\ pc = "done") => saves <= 1

\* a version 4 file was migrated, and loaded a second time
C3_Witness ==
    /\ pc = "done"
    /\ Len(results) = 2
    /\ HasStoredVersion
    /\ Stored["config.version"] = 4
    /\ results[1] # Stored
    /\ hasKey(Stored, LegacyIncludeKey("1"))

\* the paths the values of snapshots.include_folders name, in order, for
\* $HOME = /h and the working directory /w:
\*   '/a:/b' -> /a, /b          '/b:/a' -> /b, /a
\*   '/a|1:~/b' -> /a, /h/b     'a:/a//b/' -> /w/a, /a/b
\*   '/a::/b/../a' -> /a, /w, /a
PathsOf(value) ==
    CASE value = <<>> -> <<>>
      [] value = <<"/", "a", ":", "/", "b">>
           -> << <<"/", "a">>, <<"/", "b">> >>
      [] value = <<"/", "b", ":", "/", "a">>
           -> << <<"/", "b">>, <<"/", "a">> >>
      [] value = <<"/", "a", "|", "1", ":", "~", "/", "b">>
           -> << <<"/", "a">>, <<"/", "h", "/", "b">> >>
      [] value = <<"a", ":", "/", "a", "/", "/", "b", "/">>
           -> << <<"/", "w", "/", "a">>, <<"/", "a", "/", "b">> >>
      [] value = <<"/", "a", ":", ":", "/", "b", "/", ".", ".", "/", "a">>
           -> << <<"/", "a">>, <<"/", "w">>, <<"/", "a">> >>

\* C4: after the migration of a version 4 file, in every profile the include
\* list holds one (path, 0) pair for each path of the legacy value, in the
\* order of the legacy value, and both legacy keys are gone.
C4_LegacyIncludeConverted ==
    (FirstLoadDone /\ ccv = 4) =>
        \A p \in ProfilesOf(Stored) :
            LET paths == PathsOf(strValue(Stored, LegacyIncludeKey(p), <<>>))
            IN  /\ hasKey(dict, IncludeKey(p))
                /\ dict[IncludeKey(p)]
                     = [i \in 1..Len(paths) |-> <<paths[i], 0>>]
                /\ ~hasKey(dict, LegacyIncludeKey(p))
                /\ ~hasKey(dict, LegacyExcludeKey(p))
                /\ ~hasKey(file, LegacyIncludeKey(p))
                /\ ~hasKey(file, LegacyExcludeKey(p))

\* the scenario: '/a:/b' in profile 1, and legacy keys in profile 2 as well
C4_Witness ==
    /\ FirstLoadDone
    /\ ccv = 4
    /\ profiles(Stored) = <<"1", "2">>
    /\ hasKey(Stored, LegacyIncludeKey("1"))
    /\ Stored[LegacyIncludeKey("1")] = <<"/", "a", ":", "/", "b">>
    /\ hasKey(Stored, LegacyExcludeKey("1"))
    /\ hasKey(Stored, LegacyIncludeKey("2"))
    /\ dict[IncludeKey("1")] = << <<<<"/", "a">>, 0>>, <<<<"/", "b">>, 0>> >>
    /\ dict[IncludeKey("2")] = << <<<<"/", "b">>, 0>>, <<<<"/", "a">>, 0>> >>

\* a value of the file is in the store under the key, or under the key the
\* migration renames it to
KeptAs(old_key, new_key) ==
    hasKey(Stored, old_key) =>
        \/ hasKey(dict, old_key) /\ dict[old_key] = Stored[old_key]
        \/ hasKey(dict, new_key) /\ dict[new_key] = Stored[old_key]

\* C5: the migration loses no value of a profile: the renamed schedule keys
\* keep their values, and the new-style include and exclude lists of a
\* profile that has no legacy version 4 keys are as they were.
C5_NoUserValueLost ==
    FirstLoadDone =>
        \A p \in ProfilesOf(Stored) :
            /\ \A i \in 1..Len(REMAP_V6) :
                   KeptAs(profileKey(REMAP_V6[i][1], p),
                          profileKey(REMAP_V6[i][2], p))
            /\ KeptAs(profileKey("schedule.mode", p),
                      profileKey("schedule.mode", p))
            /\ (~hasKey(Stored, LegacyIncludeKey(p))
                  /\ ~hasKey(Stored, LegacyExcludeKey(p)))
                  => /\ KeptAs(IncludeKey(p), IncludeKey(p))
                     /\ KeptAs(ExcludeKey(p), ExcludeKey(p))

-----------------------------------------------------------------------------
(* Properties of the gate, checked under SpecGate.                         *)

GateMode == scheduleMode(dict, GateProfile)
GatePeriod == scheduleRepeatedPeriod(dict, GateProfile)
GateUnit == scheduleRepeatedUnit(dict, GateProfile)

\* backupScheduled was called at this instant and has returned
Answered == due # <<>>

\* the call went through olderThan: a gated mode and a timestamp
Gated == Answered /\ GateMode \in {REPEATEDLY, UDEV} /\ stamp # <<>>

\* the Monday of the Monday-to-Sunday week a day number lies in
MondayOf(ordinal) ==
    CHOOSE m \in (ordinal - 6)..ordinal : (m - BASE_MONDAY) % 7 = 0

\* C6: in every mode but RepeatedInterval (25) and OnDeviceConnect (27)
\* backupScheduled returns true, whatever timestamp, period and unit are
\* stored, and it never raises.
C6_OnlyGatedModesAsk ==
    GateMode \notin {25, 27} => /\ error = ""
                               /\ (Answered => due = <<TRUE>>)

\* the daily mode is answered 'due' with a timestamp of two minutes ago and
\* a stored repeat of MaxPeriod weeks
C6_Witness ==
    /\ GateMode = DAY
    /\ due = <<TRUE>>
    /\ stamp # <<>>
    /\ now - stamp[1] \in 0..2
    /\ GateUnit = WEEK
    /\ GatePeriod = MaxPeriod

\* C7: with no timestamp the gate answers 'due' for every mode, period and
\* unit, and never 'not due' nor an error.
C7_MissingStampIsDue ==
    stamp = <<>> => /\ error = ""
                    /\ (Answered => due = <<TRUE>>)

\* a gated profile with no timestamp and a month-scale repeat is due
C7_Witness ==
    /\ stamp = <<>>
    /\ due = <<TRUE>>
    /\ GateMode = REPEATEDLY
    /\ GateUnit = MONTH
    /\ GatePeriod = MaxPeriod

\* C8 as claimed: for an hour-scale unit the gate answers 'due' exactly when
\* at least period hours have elapsed since the timestamp.
C8_HourDueAtPeriod ==
    (Gated /\ GateUnit <= HOUR /\ GatePeriod >= 1) =>
        (due[1] <=> now - stamp[1] >= GatePeriod * 60)

\* C8 amended: for an hour-scale unit the gate answers 'due' exactly when
\* more than period hours have elapsed since the timestamp; at the instant
\* at which exactly period hours have elapsed it answers 'not due'.
C8_HourDueAfterPeriod ==
    (Gated /\ GateUnit <= HOUR /\ GatePeriod >= 1) =>
        (due[1] <=> now - stamp[1] > GatePeriod * 60)

\* exactly two hours after the timestamp, with a repeat of two hours
C8_Witness ==
    /\ Gated
    /\ GateUnit = HOUR
    /\ GatePeriod = 2
    /\ now - stamp[1] = 120
    /\ due = <<FALSE>>

\* C9: for a day-scale unit the gate answers 'due' exactly when the date of
\* the timestamp is at most today's date minus period days; no other time of
\* day of the timestamp or of the clock on those dates changes the answer.
C9_DayDueByDate ==
    (Gated /\ GateUnit > HOUR /\ GateUnit <= DAY /\ GatePeriod >= 1) =>
        /\ due[1] <=> (stamp[1] \div 1440) <= (now \div 1440) - GatePeriod
        /\ \A t \in LastRuns, n \in Nows :
              (t \div 1440 = stamp[1] \div 1440 /\ n \div 1440 = now \div 1440)
                 => olderThan(t, GatePeriod, GateUnit, n) = due

\* due on the next day although less than 24 hours have elapsed
C9_Witness ==
    /\ Gated
    /\ GateUnit = DAY
    /\ GatePeriod = 1
    /\ (stamp[1] \div 1440) = (now \div 1440) - 1
    /\ now - stamp[1] < 1440
    /\ due = <<TRUE>>

\* C10: for a week-scale unit the gate answers 'due' exactly when the date of
\* the timestamp is before the Monday (period - 1) weeks before the Monday of
\* the current week, and the answer is the same at every instant of the
\* current Monday-to-Sunday week.
C10_WeekDueByMonday ==
    (Gated /\ GateUnit > DAY /\ GateUnit <= WEEK /\ GatePeriod >= 1) =>
        /\ due[1] <=> (stamp[1] \div 1440)
                        < MondayOf(now \div 1440) - 7 * (GatePeriod - 1)
        /\ \A n \in Nows :
              MondayOf(n \div 1440) = MondayOf(now \div 1440)
                 => olderThan(stamp[1], GatePeriod, GateUnit, n) = due

\* a timestamp of Sunday is due on the Thursday after it, four days later,
\* with a repeat of one week
C10_Witness ==
    /\ Gated
    /\ GateUnit = WEEK
    /\ GatePeriod = 1
    /\ now = At(BASE_MONDAY + 3, 15, 0)
    /\ stamp[1] = At(BASE_MONDAY - 1, 23, 59)
    /\ due = <<TRUE>>

\* the gated call was made with a timestamp: it returned or it raised
Called == /\ GateMode \in {REPEATEDLY, UDEV}
          /\ stamp # <<>>
          /\ (Answered \/ error # "")

\* the day (day of the month + 1) days before the day of 'now': the last
\* day but one of the month before
SecondLastDay == FromOrdinal((now \div 1440) - (FromOrdinal(now \div 1440)[3] + 1))

\* year and month k months before those of SecondLastDay
MonthsBefore(k) ==
    LET idx == SecondLastDay[1] * 12 + (SecondLastDay[2] - 1) - k
    IN  <<idx \div 12, (idx % 12) + 1>>

\* every month passed by (GatePeriod - 1) decrements has the day
WalkHasDay ==
    \A k \in 1..(GatePeriod - 1) :
        SecondLastDay[3] <= DaysInMonth(MonthsBefore(k)[1], MonthsBefore(k)[2])

\* C11 as stated: for a month-scale unit the gate answers 'due' exactly when
\* the date of the timestamp is before yesterday's date with its month
\* decremented 'period' times, January rolling to December of the year
\* before.
C11_MonthDueByWalkFromYesterday ==
    LET reference == MonthWalk(FromOrdinal((now \div 1440) - 1), GatePeriod)
    IN  (Gated /\ GateUnit > WEEK /\ GateUnit <= MONTH /\ reference # <<>>) =>
            (due[1] <=> (stamp[1] \div 1440) < ToOrdinal(reference))

\* C11, amended: for a month-scale unit the reference date is the last day
\* but one of the month before the current one, with its month decremented
\* (period - 1) times, January rolling to December of the year before; the
\* gate answers 'due' exactly when the date of the timestamp is before the
\* reference date, and it raises ValueError, answering nothing, when a
\* month passed by the decrements lacks that day.
C11_MonthDueBySecondLastDay ==
    (Called /\ GateUnit > 30 /\ GateUnit <= 40) =>
        IF WalkHasDay
          THEN /\ error = ""
               /\ due[1] <=> (stamp[1] \div 1440)
                   < ToOrdinal(<<MonthsBefore(GatePeriod - 1)[1],
                                 MonthsBefore(GatePeriod - 1)[2],
                                 SecondLastDay[3]>>)
          ELSE /\ error = "ValueError"
               /\ due = <<>>

\* on 10 February 2024 with a repeat of two months the reference date is
\* 30 December 2023: a timestamp of 29 December is due
C11_Witness ==
    /\ Gated
    /\ GateUnit = MONTH
    /\ GatePeriod = 2
    /\ now = At(WINTER_DAY, 9, 0)
    /\ stamp[1] = At(ToOrdinal(<<2023, 12, 29>>), 12, 0)
    /\ due = <<TRUE>>

\* C12 as stated: for a unit above the month scale the gate answers what it
\* answers for the unit MONTH with the same timestamp, clock and period.
C12_CoarserUsesMonthWalk ==
    (Gated /\ GateUnit > 40
           /\ ~olderThanRaises(stamp[1], GatePeriod, MONTH, now)) =>
        due = olderThan(stamp[1], GatePeriod, MONTH, now)

\* C12, amended: for a unit above the month scale (unit > 40, as YEAR = 80)
\* the gate walks no months: it answers 'due' for every timestamp, clock
\* and period, and it never raises.
C12_CoarserAlwaysDue ==
    (GateMode \in {25, 27} /\ stamp # <<>> /\ GateUnit > 40) =>
        /\ error = ""
        /\ (Answered => due = <<TRUE>>)

\* the unit YEAR is answered 'due' for a timestamp that lies ahead of the
\* clock, for which the unit MONTH answers 'not due'
C12_Witness ==
    /\ Gated
    /\ GateUnit = YEAR
    /\ stamp[1] > now
    /\ due = <<TRUE>>
    /\ ~olderThanRaises(stamp[1], GatePeriod, MONTH, now)
    /\ olderThan(stamp[1], GatePeriod, MONTH, now) = <<FALSE>>

\* the gate was asked again after the spool file was written, under a
\* gated mode, and the call has returned or raised
AskedAgain == written /\ Called

\* the clock is in the unit window of the written timestamp: within the
\* hour after it, on its day, in its Monday-to-Sunday week, in its month
SameWindow ==
    /\ stamp[1] <= now
    /\ IF GateUnit <= 10 THEN now - stamp[1] < 60
       ELSE IF GateUnit <= 20 THEN (stamp[1] \div 1440) = (now \div 1440)
       ELSE IF GateUnit <= 30
         THEN MondayOf(stamp[1] \div 1440) = MondayOf(now \div 1440)
       ELSE /\ FromOrdinal(stamp[1] \div 1440)[1] = FromOrdinal(now \div 1440)[1]
            /\ FromOrdinal(stamp[1] \div 1440)[2] = FromOrdinal(now \div 1440)[2]

\* C13 as stated: after the gate answered 'due' and the timestamp was set
\* to that clock, a following call with the same period and unit, whatever
\* the unit, at a clock in the same unit window answers 'not due'.
C13_NotDueAgainInWindow ==
    (AskedAgain /\ SameWindow) => due = <<FALSE>>

\* C13, amended: after the gate answered 'due' and the timestamp was set to
\* that clock, a following call with the same period and unit at a clock
\* in the same unit window answers 'not due' for every unit up to the week
\* scale; for a month-scale unit it answers 'not due' or, when the month
\* walk meets a month that lacks the day, raises ValueError; for a unit
\* above the month scale it answers 'due' again.
C13_NotDueAgainUpToMonth ==
    (AskedAgain /\ SameWindow) =>
        IF GateUnit > 40 THEN due = <<TRUE>> /\ error = ""
        ELSE IF GateUnit > 30 /\ ~WalkHasDay
          THEN due = <<>> /\ error = "ValueError"
        ELSE due = <<FALSE>> /\ error = ""

\* a daily repeat: the backup ran on Monday at 12:00, and the gate asked
\* at 12:40 of that Monday answers 'not due'
C13_Witness ==
    /\ AskedAgain
    /\ GateUnit = DAY
    /\ GatePeriod = 1
    /\ stamp[1] = At(BASE_MONDAY, 12, 0)
    /\ now = At(BASE_MONDAY, 12, 40)
    /\ due = <<FALSE>>

-----------------------------------------------------------------------------
(* Properties of two invocations of one profile, checked under SpecRace.   *)

\* both invocations have asked the gate, under a gated mode
BothAsked ==
    /\ GateMode \in {REPEATEDLY, UDEV}
    /\ \A j \in Jobs : jobs[j].pc # "start"

BothDue == \A j \in Jobs : jobs[j].due = <<TRUE>>

\* the two invocations asked in one unit window: less than an hour apart,
\* on one day, in one Monday-to-Sunday week, in one month
AskedInOneWindow ==
    LET a == jobs[1].at
        b == jobs[2].at
    IN  IF GateUnit <= 10 THEN a - b < 60 /\ b - a < 60
        ELSE IF GateUnit <= 20 THEN (a \div 1440) = (b \div 1440)
        ELSE IF GateUnit <= 30
          THEN MondayOf(a \div 1440) = MondayOf(b \div 1440)
        ELSE /\ FromOrdinal(a \div 1440)[1] = FromOrdinal(b \div 1440)[1]
             /\ FromOrdinal(a \div 1440)[2] = FromOrdinal(b \div 1440)[2]

\* C14 as stated, the serialized half: when the check, the backup and the
\* timestamp write of each invocation are serialized, at most one of two
\* invocations in the same unit window is answered 'due'.
C14_SerializedAtMostOneDue ==
    (useLock /\ BothAsked /\ AskedInOneWindow) => ~BothDue

\* C14, amended: the gate reads and its caller overwrites, with no
\* compare-and-swap: as long as neither invocation has written, both read
\* the timestamp that was stored at the start, and a write puts the clock
\* in whatever the file holds by then; when the invocations are serialized
\* and the unit is at most month-scale, at most one of two invocations in
\* the same unit window is answered 'due' (for a unit above the month
\* scale both are).
C14_RaceUnlessSerialized ==
    /\ (~written /\ BothAsked) => jobs[1].read = jobs[2].read
    /\ written => stamp # <<>> /\ stamp[1] <= now
    /\ (useLock /\ BothAsked /\ AskedInOneWindow) =>
          IF GateUnit > 40 THEN BothDue ELSE ~BothDue

\* without the lock both invocations have read the same timestamp and both
\* were answered 'due', on one day of a daily repeat, and neither has
\* written yet
C14_Witness ==
    /\ ~useLock
    /\ BothAsked
    /\ BothDue
    /\ ~written
    /\ \A j \in Jobs : jobs[j].pc = "backup" /\ jobs[j].read = stamp
    /\ stamp # <<>>
    /\ GateUnit = DAY
    /\ AskedInOneWindow

-----------------------------------------------------------------------------
(* Properties of the schedule compiler, checked under SpecCron.            *)

CronIds == {"1", "2"}

\* profile p has been compiled by a call of _cron_line
Compiled(p) == lineOut[p] # <<>>

\* what the last _cron_line of profile p returned, as text
LineText(p) == lineOut[p][1].ret[1]

\* the fields of the last line of profile p
LineFields(p) == Split(LineText(p), " ")

\* the modes that have a time trigger
TimeModes == {1, 2, 4, 7, 10, 12, 14, 16, 18, 19, 20, 25, 30, 40, 80}

TimedProfiles ==
    { i \in 1..Len(profiles(dict)) :
        scheduleMode(dict, profiles(dict)[i]) \in TimeModes }

\* profiles_cron_lines was called and has returned its list
ListReturned == linesOut # <<>> /\ linesOut[1].raised = ""

IsNumber(field) ==
    /\ field # <<>>
    /\ \A k \in 1..Len(field) :
          field[k] \in {"0", "1", "2", "3", "4", "5", "6", "7", "8", "9"}

\* the number a field of decimal digits is read as
RECURSIVE NumOf(_)
NumOf(field) ==
    IF field = <<>> THEN 0
    ELSE 10 * NumOf(SubSeq(field, 1, Len(field) - 1))
         + (CHOOSE n \in 0..9 : DecimalDigits[n + 1] = field[Len(field)])

IsStar(field) == field = <<"*">>

IsStep(field) ==
    /\ Len(field) > 2
    /\ SubSeq(field, 1, 2) = <<"*", "/">>
    /\ IsNumber(SubSeq(field, 3, Len(field)))

\* C15: the list profiles_cron_lines returns has no empty and no blank
\* entry, and as many entries as there are profiles whose mode has a time
\* trigger: a disabled profile, a profile started by its device and a
\* profile whose mode no branch names add nothing, every other profile adds
\* one line.
C15_NoBlankEntries ==
    ListReturned =>
        /\ \A i \in 1..Len(linesOut[1].lines) :
              \E k \in 1..Len(linesOut[1].lines[i]) :
                  linesOut[1].lines[i][k] # " "
        /\ Len(linesOut[1].lines) = Cardinality(TimedProfiles)

\* two profiles, the first started by its device and the second daily: the
\* list has the one line of the second
C15_Witness ==
    /\ ListReturned
    /\ Len(profiles(dict)) = 2
    /\ scheduleMode(dict, "1") = UDEV
    /\ scheduleMode(dict, "2") = DAY
    /\ Len(linesOut[1].lines) = 1

\* the UDEV branch of a profile cannot get its device id or its rule
UdevFails(p) ==
    /\ scheduleMode(dict, p) = 27
    /\ \/ snapshotsMode(dict, p) \notin {"local", "local_encfs"}
       \/ /\ udev.uuid = <<>>
          /\ profileStrValue(dict, "snapshots.path.uuid", "", p) = ""
       \/ udev.rejects

\* C16: when the device id of a profile started by its device cannot be
\* resolved, or its udev rule is rejected, profiles_cron_lines does not
\* raise: the error is reported, the profile has no entry and the lines of
\* all the other profiles are returned.
C16_UdevFailureOmitsEntry ==
    (linesOut # <<>>
       /\ \E i \in 1..Len(profiles(dict)) : UdevFails(profiles(dict)[i])) =>
        /\ linesOut[1].raised = ""
        /\ linesOut[1].errors # <<>>
        /\ Len(linesOut[1].lines) = Cardinality(TimedProfiles)

\* C17: in the modes DAY, WEEK, MONTH and YEAR the line has the minute
\* time mod 100 and the hour time div 100, then '* * *' for DAY,
\* '* * weekday' for WEEK, 'day * *' for MONTH and '1 1 *' for YEAR, then
\* the command; DAY with time 1345 gives '45 13 * * *' and WEEK with time 0
\* and weekday 7 gives '0 0 * * 7'.
C17_TimedFields ==
    \A p \in CronIds :
        (Compiled(p) /\ scheduleMode(dict, p) \in {20, 30, 40, 80}) =>
            LET f == LineFields(p)
                mode == scheduleMode(dict, p)
                time == scheduleTime(dict, p)
            IN  /\ Len(f) = 6
                /\ IsNumber(f[1]) /\ NumOf(f[1]) = time % 100
                /\ IsNumber(f[2]) /\ NumOf(f[2]) = time \div 100
                /\ mode = 20 => IsStar(f[3]) /\ IsStar(f[4]) /\ IsStar(f[5])
                /\ mode = 30 => /\ IsStar(f[3]) /\ IsStar(f[4])
                               /\ IsNumber(f[5])
                               /\ NumOf(f[5]) = scheduleWeekday(dict, p)
                /\ mode = 40 => /\ IsNumber(f[3])
                               /\ NumOf(f[3]) = scheduleDay(dict, p)
                               /\ IsStar(f[4]) /\ IsStar(f[5])
                /\ mode = 80 => /\ f[3] = <<"1">> /\ f[4] = <<"1">>
                               /\ IsStar(f[5])
                /\ f[6] = <<"{", "c", "m", "d", "}">>
                /\ (mode = 20 /\ time = 1345) =>
                      LineText(p) =
                          <<"4", "5", " ", "1", "3", " ", "*", " ", "*",
                            " ", "*", " ", "{", "c", "m", "d", "}">>
                /\ (mode = 30 /\ time = 0 /\ scheduleWeekday(dict, p) = 7) =>
                      LineText(p) =
                          <<"0", " ", "0", " ", "*", " ", "*", " ", "7",
                            " ", "{", "c", "m", "d", "}">>

\* the daily profile with the stored time 1345 was compiled to 45 13 * * *
C17_Witness ==
    /\ Compiled("1")
    /\ scheduleMode(dict, "1") = DAY
    /\ hasKey(dict, profileKey("schedule.time", "1"))
    /\ scheduleTime(dict, "1") = 1345
    /\ LineFields("1")[1] = <<"4", "5">>
    /\ LineFields("1")[2] = <<"1", "3">>

\* C18: in the mode REPEATEDLY the line is the poll '*/15 * * * *' when
\* the repeat unit is at most DAY and the hourly '0 * * * *' when it is
\* coarser, whatever the period: the period is in no field.
C18_RepeatedPolls ==
    \A p \in CronIds :
        (Compiled(p) /\ scheduleMode(dict, p) = 25) =>
            LineText(p) =
                IF scheduleRepeatedUnit(dict, p) <= 20
                  THEN
                      <<"*", "/", "1", "5", " ", "*", " ", "*", " ", "*",
                        " ", "*", " ", "{", "c", "m", "d", "}">>
                  ELSE
                      <<"0", " ", "*", " ", "*", " ", "*", " ", "*", " ",
                        "{", "c", "m", "d", "}">>

\* a repeat of every 3 weeks was compiled to the hourly poll
C18_Witness ==
    /\ Compiled("1")
    /\ scheduleMode(dict, "1") = REPEATEDLY
    /\ scheduleRepeatedUnit(dict, "1") = WEEK
    /\ scheduleRepeatedPeriod(dict, "1") = 3
    /\ LineFields("1")[1] = <<"0">>
    /\ LineFields("1")[2] = <<"*">>

\* C19 as stated: the line of every mode with a time trigger but the start
\* at boot has five time fields and the command, and each of the five is
\* '*', one integer or a step '*/N', the custom hours included; the start
\* at boot has '@reboot' in place of the five fields.
C19_FieldsStarIntOrStep ==
    \A p \in CronIds :
        (Compiled(p) /\ scheduleMode(dict, p) \in TimeModes) =>
            IF scheduleMode(dict, p) = 1
              THEN LineText(p) =
                  <<"@", "r", "e", "b", "o", "o", "t", " ", "{", "c", "m",
                    "d", "}">>
              ELSE /\ Len(LineFields(p)) = 6
                   /\ \A k \in 1..5 : \/ IsStar(LineFields(p)[k])
                                      \/ IsNumber(LineFields(p)[k])
                                      \/ IsStep(LineFields(p)[k])
                   /\ LineFields(p)[6] = <<"{", "c", "m", "d", "}">>

\* C19, amended: the line of every mode with a time trigger but the start
\* at boot has five time fields and the command; each of the five is '*',
\* one integer or a step '*/N', but for the hour field of the custom hours,
\* which is the stored custom-hours text as it is ('8,12,18,23' when none
\* is stored), a comma list of integers or a step; the start at boot has
\* '@reboot' in place of the five fields.
C19_FieldsWithCustomHours ==
    \A p \in CronIds :
        (Compiled(p) /\ scheduleMode(dict, p) \in TimeModes) =>
            IF scheduleMode(dict, p) = 1
              THEN LineText(p) =
                  <<"@", "r", "e", "b", "o", "o", "t", " ", "{", "c", "m",
                    "d", "}">>
              ELSE /\ Len(LineFields(p)) = 6
                   /\ \A k \in 1..5 :
                         IF k = 2 /\ scheduleMode(dict, p) = 19
                           THEN LineFields(p)[k] =
                                  IF hasKey(dict, profileKey("schedule.custom_time", p))
                                    THEN dict[profileKey("schedule.custom_time", p)]
                                    ELSE
                                        <<"8", ",", "1", "2", ",", "1",
                                          "8", ",", "2", "3">>
                           ELSE \/ IsStar(LineFields(p)[k])
                                \/ IsNumber(LineFields(p)[k])
                                \/ IsStep(LineFields(p)[k])
                   /\ LineFields(p)[6] = <<"{", "c", "m", "d", "}">>

\* the custom hours '0,12' were compiled to the line 0 0,12 * * *
C19_Witness ==
    /\ Compiled("1")
    /\ scheduleMode(dict, "1") = CUSTOM_HOUR
    /\ LineFields("1")[1] = <<"0">>
    /\ LineFields("1")[2] = <<"0", ",", "1", "2">>
    /\ ~IsNumber(LineFields("1")[2])
    /\ ~IsStep(LineFields("1")[2])

\* C20: a call of _cron_line for a profile whose mode is neither NONE nor
\* UDEV returns the text its first call returned, whatever calls of
\* _cron_line and profiles_cron_lines came before or between, reports no
\* error, and leaves the configuration and the udev rules as they were.
C20_TimedCompileIsPure ==
    [][\A p \in CronIds :
          (/\ p \in ProfilesOf(dict)
           /\ scheduleMode(dict, p) \notin {0, 27}
           /\ CronLine(p)) =>
              /\ dict' = dict
              /\ udevRules' = udevRules
              /\ lineOut'[p] = firstOut'[p]
              /\ lineOut'[p][1].errors = <<>>]_vars

\* the weekly first profile was compiled, and so was the second, started by
\* its device: its call stored the device id and added a udev rule, and
\* profiles_cron_lines has returned
C20_Witness ==
    /\ Compiled("1")
    /\ scheduleMode(dict, "1") = WEEK
    /\ lineOut["1"] = firstOut["1"]
    /\ Compiled("2")
    /\ scheduleMode(dict, "2") = UDEV
    /\ dict # orig
    /\ udevRules # {}
    /\ ListReturned

-----------------------------------------------------------------------------
(* More properties of the load-time migration, checked under Spec.         *)

\* C27: a configuration without the config.version field is taken for the
\* current version: the load runs no migration step, changes no key and
\* saves nothing, whatever version-4 or version-5 keys the file holds.
C27_MissingVersionIsCurrent ==
    ~HasStoredVersion =>
        /\ pc \in {"start", "check", "done"}
        /\ steps = <<>>
        /\ saves = 0
        /\ file = orig
        /\ pc # "start" => dict = Stored
        /\ \A i \in 1..Len(results) : results[i] = Stored

\* a file without the field that holds the include list of version 4 and
\* a qt4 key of version 5 was loaded, and is as it was
C27_Witness ==
    /\ ~HasStoredVersion
    /\ FirstLoadDone
    /\ hasKey(Stored, LegacyIncludeKey("1"))
    /\ hasKey(Stored, "qt4.last_path")
    /\ dict = Stored
    /\ file = orig

-----------------------------------------------------------------------------
(* More properties of the schedule compiler, checked under SpecCron.       *)

\* C29: for every stored time from 0 to 2400 the line of the modes DAY,
\* WEEK, MONTH and YEAR has a minute field from 0 to 59 and an hour field
\* from 0 to 23.
C29_TimeFieldsInRange ==
    \A p \in CronIds :
        (/\ Compiled(p)
         /\ scheduleMode(dict, p) \in {20, 30, 40, 80}
         /\ scheduleTime(dict, p) \in 0..2400) =>
            /\ IsNumber(LineFields(p)[1])
            /\ NumOf(LineFields(p)[1]) \in 0..59
            /\ IsNumber(LineFields(p)[2])
            /\ NumOf(LineFields(p)[2]) \in 0..23

-----------------------------------------------------------------------------
(* More properties of the gate, checked under SpecGate.                    *)

\* C28: the month-scale computation of the gate never fails: for every
\* clock, every timestamp and every period from 1 on the call returns a
\* boolean, every date of the month walk being a date of the calendar.
C28_MonthWalkNeverFails ==
    (Called /\ GateUnit > WEEK /\ GateUnit <= MONTH) =>
        /\ error = ""
        /\ due \in {<<TRUE>>, <<FALSE>>}

\* C30: with the timestamp, the period and the unit held fixed, once the
\* gate has answered that the backup is due it answers so at every later
\* clock.
C30_DueStaysDue ==
    (Gated /\ due = <<TRUE>>) =>
        \A n \in Nows :
            n > now =>
                /\ ~olderThanRaises(stamp[1], GatePeriod, GateUnit, n)
                /\ olderThan(stamp[1], GatePeriod, GateUnit, n) = <<TRUE>>

-----------------------------------------------------------------------------
(* Properties of the retention settings, checked under SpecRetention.      *)

Today == DateOf(now)

AgeEnabled == removeOldSnapshots(dict, GateProfile)[1]
AgeValue == removeOldSnapshots(dict, GateProfile)[2]
AgeUnit == removeOldSnapshots(dict, GateProfile)[3]

\* the last read was of this reader
Read(call) == reply # <<>> /\ reply[1].call = call

\* the last read returned this value
Gave(v) == reply[1].raised = "" /\ reply[1].value = v

\* C21: with the age policy disabled removeOldSnapshotsDate returns the
\* date 0001-01-01 for every value and unit, a date no snapshot date is
\* before; it returns the same date with the policy enabled and a unit
\* other than DAY, WEEK and YEAR.
C21_SentinelWhenOffOrUnknownUnit ==
    (/\ Read("removeOldSnapshotsDate")
     /\ (~AgeEnabled \/ AgeUnit \notin {DAY, WEEK, YEAR})) =>
        /\ Gave(ToOrdinal(<<1, 1, 1>>))
        /\ \A day \in Todays : ~(day < reply[1].value)

C21_Witness ==
    /\ Read("removeOldSnapshotsDate")
    /\ ~AgeEnabled
    /\ AgeUnit = WEEK
    /\ AgeValue = 1
    /\ Gave(ToOrdinal(<<1, 1, 1>>))

\* C22: with the weekly age policy enabled the cutoff is the Monday of the
\* week that lies 'value' weeks before the week of today, for every value
\* from 0 on and every day of the week.
C22_WeekCutoffIsMonday ==
    (/\ Read("removeOldSnapshotsDate")
     /\ AgeEnabled
     /\ AgeUnit = WEEK
     /\ AgeValue >= 0) =>
        Gave(MondayOf(Today) - 7 * AgeValue)

C22_Witness ==
    /\ Read("removeOldSnapshotsDate")
    /\ AgeEnabled
    /\ AgeUnit = WEEK
    /\ AgeValue = 2
    /\ Today = BASE_MONDAY + 6
    /\ Gave(BASE_MONDAY - 14)

\* today is a Wednesday and the weekly age policy is enabled with value 1
WednesdayOneWeek ==
    /\ Read("removeOldSnapshotsDate")
    /\ AgeEnabled
    /\ AgeUnit = WEEK
    /\ AgeValue = 1
    /\ Today - MondayOf(Today) = 2

\* C23, as stated: with the weekly age policy enabled and value 1, on a
\* Wednesday the cutoff is the Monday of the current week, 2 days before
\* today, not the date 7 days ago.
C23_WednesdayThisMonday ==
    WednesdayOneWeek =>
        /\ Gave(Today - 2)
        /\ reply[1].value = MondayOf(Today)

\* C23, amended: with the weekly age policy enabled and value 1, on a
\* Wednesday the cutoff is the Monday of the week before, 9 days before
\* today, not the date 7 days ago.
C23_WednesdayPreviousMonday ==
    WednesdayOneWeek =>
        /\ Gave(Today - 9)
        /\ reply[1].value = MondayOf(Today) - 7
        /\ reply[1].value # Today - 7

C23_Witness ==
    /\ WednesdayOneWeek
    /\ Today = BASE_MONDAY + 2
    /\ Gave(BASE_MONDAY - 7)

\* C24: with the yearly age policy enabled the cutoff is day 1 of the
\* month of today in the year (year of today - value), a date of the
\* calendar for every today, 29 February too, and every value that leaves
\* the year at 1 or above.
C24_YearCutoffIsFirstOfMonth ==
    (/\ Read("removeOldSnapshotsDate")
     /\ AgeEnabled
     /\ AgeUnit = YEAR
     /\ FromOrdinal(Today)[1] - AgeValue >= 1) =>
        /\ reply[1].raised = ""
        /\ FromOrdinal(reply[1].value) =
              <<FromOrdinal(Today)[1] - AgeValue, FromOrdinal(Today)[2], 1>>

C24_Witness ==
    /\ Read("removeOldSnapshotsDate")
    /\ AgeEnabled
    /\ AgeUnit = YEAR
    /\ AgeValue = 1
    /\ FromOrdinal(Today) = <<2024, 2, 29>>
    /\ Gave(ToOrdinal(<<2023, 2, 1>>))

SpaceEnabled == minFreeSpace(dict, GateProfile)[1]
SpaceValue == minFreeSpace(dict, GateProfile)[2]
SpaceUnit == minFreeSpace(dict, GateProfile)[3]

\* C25: minFreeSpaceMib returns value * 1024 with the policy enabled and
\* the unit GB, the value as it is with the policy enabled and the unit
\* MB, and 0 with the policy disabled or a unit that is neither.
C25_MinFreeSpaceInMib ==
    Read("minFreeSpaceMib") =>
        /\ (SpaceEnabled /\ SpaceUnit = 20) => Gave(SpaceValue * 1024)
        /\ (SpaceEnabled /\ SpaceUnit = 10) => Gave(SpaceValue)
        /\ (~SpaceEnabled \/ SpaceUnit \notin {10, 20}) => Gave(0)

C25_Witness ==
    /\ Read("minFreeSpaceMib")
    /\ SpaceEnabled
    /\ SpaceUnit = 20
    /\ SpaceValue = 3
    /\ Gave(3072)

StoredMaxArg ==
    profileIntValue(dict, "snapshots.ssh.max_arg_length", 0, GateProfile)

\* C26: reading the limit of the remote command length raises an error,
\* and neither clamps nor returns the value, when the stored value is not
\* 0 and below 700; it returns 0 and every value from 700 on as stored,
\* and the read leaves the stored setting as it was.
C26_LowArgLengthRaises ==
    Read("sshMaxArgLength") =>
        /\ (StoredMaxArg # 0 /\ StoredMaxArg < 700) =>
              reply[1].raised = "ValueError"
        /\ (StoredMaxArg = 0 \/ StoredMaxArg >= 700) => Gave(StoredMaxArg)
        /\ dict = orig

C26_Witness ==
    /\ Read("sshMaxArgLength")
    /\ StoredMaxArg = 699
    /\ reply[1].raised = "ValueError"
    /\ dict = orig
====
